---- MODULE Spec2Model ----
(***************************************************************************)
(* NMEA GPS emulator: the navigation engine (NmeaMsg), its sentence        *)
(* renderers and the sink workers that pull batches from it.               *)
(*                                                                         *)
(* Units.  Angles and speeds are integers in hundredths of a degree or     *)
(* knot (300 is 3 degrees, 500 is 5 knots) and altitudes are integers in   *)
(* ten-thousandths of a metre (30000 is 3 m), so that round(x, 1) and      *)
(* round(x, 3) are real conversions: both round to a multiple of 10.  The  *)
(* clock counts half seconds.  Latitude and longitude are integers on an   *)
(* abstract grid whose unit is the distance made at 0.01 knot in half a    *)
(* second.                                                                 *)
(***************************************************************************)
EXTENDS Integers, Sequences, FiniteSets, TLC

VARIABLES
    nmea_object,   \* the one shared NmeaMsg instance (record of its attributes)
    op,            \* history: the last operation performed on the engine
    ticks,         \* history: ticks since construction or the last target write
    start,         \* history: heading and heading target at that moment
    presses,       \* number of control operations performed so far
    threads,       \* threading.enumerate(): the live 'nmea_srv' threads, in start order
    pc,            \* where each NmeaSrvThread stands in run()
    lock,          \* each thread's own self._lock: TRUE while held
    pending,       \* each thread's heading/speed/altitude and _*_change flags
    role,          \* what the thread chose in this cycle: "advancer" or "reader"
    nmea_list,     \* the batch each thread is rendering or sending
    ctl,           \* the control thread inside the change prompt
    clock,         \* wall clock, in half seconds
    advances,      \* history: next() calls in the current cadence interval
    crowd,         \* history: two or more workers were alive in this interval
    produced,      \* history: the batches completed ticks have produced
    sink,          \* the kind of the lone sink thread of a single-sink run
    process,       \* the emulator's process: "running" or "terminated"
    call           \* the last call of a renderer or utility: arguments and result

engine == <<nmea_object, op, ticks, start, presses>>
workers == <<threads, pc, lock, pending, role, nmea_list, ctl, clock,
             advances, crowd, produced>>
rest == <<sink, process, call>>
vars == <<nmea_object, op, ticks, start, presses, threads, pc, lock, pending,
          role, nmea_list, ctl, clock, advances, crowd, produced, sink,
          process, call>>

(***************************************************************************)
(* Bounds of the model.                                                    *)
(***************************************************************************)
MaxTime == 9
MaxDt == 2
MaxPresses == 1
MaxTicks == 8
MaxWorkers == 3
MaxIntervals == 1
MaxSats == 34
MaxStart == 2
MaxLen == 3
MaxBelow == 3
MaxCount == 99
MaxRequests == 2
MaxConns == 12

\* Values the collaborators hand to the constructor: a stationary unit
\* heading 350, a moving one whose course comes from a point-of-interest
\* file with two decimals, a stationary one in the south-west heading 359
\* at an altitude with four decimals, and a moving one heading east.
InitCases ==
    { [position |-> [lat |-> 0, lng |-> 0], altitude |-> 152000,
       speed |-> 0, heading |-> 35000],
      [position |-> [lat |-> 0, lng |-> 0], altitude |-> 152000,
       speed |-> 1000, heading |-> 35696],
      [position |-> [lat |-> -40, lng |-> -70], altitude |-> 152004,
       speed |-> 0, heading |-> 35900],
      [position |-> [lat |-> 0, lng |-> 0], altitude |-> 152000,
       speed |-> 1000, heading |-> 9000] }

\* Answers typed at the change prompt: a course (an integer 0..359), a speed
\* and an altitude (one decimal), each of which may be skipped with Enter.
PromptCases ==
    { [heading |-> 1000, heading_typed |-> TRUE,
       speed |-> 0, speed_typed |-> FALSE,
       altitude |-> 0, altitude_typed |-> FALSE],
      [heading |-> 18000, heading_typed |-> TRUE,
       speed |-> 1200, speed_typed |-> TRUE,
       altitude |-> 200000, altitude_typed |-> TRUE],
      [heading |-> 1000, heading_typed |-> TRUE,
       speed |-> 0, speed_typed |-> FALSE,
       altitude |-> 300000, altitude_typed |-> TRUE],
      [heading |-> 0, heading_typed |-> FALSE,
       speed |-> 0, speed_typed |-> TRUE,
       altitude |-> 0, altitude_typed |-> FALSE] }

(***************************************************************************)
(* Pure helpers.                                                           *)
(***************************************************************************)
Abs(x) == IF x < 0 THEN -x ELSE x

\* round(x, 1) on hundredths: to the nearest tenth, a tie to the even tenth.
\* (On floats a tie falls as the binary value lies; the inputs used below
\* have no tie.)
Round1(x) ==
    LET r == x % 10
        lo == x - r
    IN  IF r < 5 THEN lo
        ELSE IF r > 5 THEN lo + 10
        ELSE IF (lo \div 10) % 2 = 0 THEN lo ELSE lo + 10

\* round(x, 3) on ten-thousandths: to the nearest thousandth.
Round3(x) ==
    LET r == x % 10
        lo == x - r
    IN  IF r < 5 THEN lo
        ELSE IF r > 5 THEN lo + 10
        ELSE IF (lo \div 10) % 2 = 0 THEN lo ELSE lo + 10

heading_increment == 300
speed_increment == 500
altitude_increment == 30000

\* A heading update that turns toward the numerically nearer side and never
\* through 0/360.
heading_update_numeric(head_current, head_target) ==
    LET turn_angle == head_target - head_current
        stepped ==
            IF Abs(turn_angle) <= heading_increment THEN head_target
            ELSE IF turn_angle > 0 THEN head_current + heading_increment
            ELSE head_current - heading_increment
        ranged ==
            IF stepped = 36000 THEN 0
            ELSE IF stepped > 36000 THEN stepped - 36000
            ELSE IF stepped < 0 THEN stepped + 36000
            ELSE stepped
    IN  Round1(ranged)

\* NmeaMsg._heading_update
heading_update(head_current, head_target) ==
    LET turn_angle == head_target - head_current
        stepped ==
            IF Abs(turn_angle) <= heading_increment THEN head_target
            ELSE IF head_target > head_current
                 THEN IF Abs(turn_angle) > 18000
                      THEN IF turn_angle > 0 THEN head_current - heading_increment
                                             ELSE head_current + heading_increment
                      ELSE IF turn_angle > 0 THEN head_current + heading_increment
                                             ELSE head_current - heading_increment
                 ELSE IF Abs(turn_angle) > 18000
                      THEN IF turn_angle > 0 THEN head_current - heading_increment
                                             ELSE head_current + heading_increment
                      ELSE IF turn_angle > 0 THEN head_current + heading_increment
                                             ELSE head_current - heading_increment
        ranged ==
            IF stepped = 36000 THEN 0
            ELSE IF stepped > 36000 THEN stepped - 36000
            ELSE IF stepped < 0 THEN stepped + 36000
            ELSE stepped
    IN  Round1(ranged)

\* A speed update that always moves by the increment and never sets the
\* speed to the target.
speed_update_no_snap(speed_current, speed_target) ==
    Round1(IF speed_target > speed_current THEN speed_current + speed_increment
           ELSE speed_current - speed_increment)

\* NmeaMsg._speed_update
speed_update(speed_current, speed_target) ==
    LET speed_diff == speed_target - speed_current
    IN  Round1(IF Abs(speed_diff) <= speed_increment THEN speed_target
               ELSE IF speed_target > speed_current THEN speed_current + speed_increment
               ELSE speed_current - speed_increment)

\* NmeaMsg._altitude_update
altitude_update(altitude_current, altitude_target) ==
    LET altitude_diff == altitude_target - altitude_current
    IN  Round3(IF Abs(altitude_diff) <= altitude_increment THEN altitude_target
               ELSE IF altitude_target > altitude_current THEN altitude_current + altitude_increment
               ELSE altitude_current - altitude_increment)

(***************************************************************************)
(* External capabilities, by their contract.                               *)
(***************************************************************************)
\* Geod(ellps='WGS84').fwd: the point at `distance` from (lon, lat) on the
\* course `heading`; on the grid the course is reduced to its north and east
\* signs.  A zero distance gives the start point.
geod_fwd(lon_start, lat_start, course, distance) ==
    LET north == IF course < 9000 \/ course > 27000 THEN 1
                 ELSE IF course = 9000 \/ course = 27000 THEN 0 ELSE -1
        east == IF course > 0 /\ course < 18000 THEN 1
                ELSE IF course > 18000 /\ course < 36000 THEN -1 ELSE 0
    IN  [lng |-> lon_start + east * distance, lat |-> lat_start + north * distance]

\* GeoMag().calculate(...).d: the signed declination in hundredths of a
\* degree, east positive; a table lookup, here by the sign of the longitude.
geomag_d(lat, lon) == IF lon >= 0 THEN 327 ELSE -412

\* value.strftime('%H%M%S') and value.strftime('%d%m%y') of a clock value:
\* the whole second of the day, and the day.
strftime_HMS(value) == (value \div 2) % 86400
strftime_date(value) == value \div 172800

\* ddd2nmea / ll2dir: magnitude and hemisphere letter of a coordinate.
ddd2nmea(degrees) == Abs(degrees)
ll2dir(degrees, att) ==
    IF att = "lat" THEN (IF degrees >= 0 THEN "N" ELSE "S")
    ELSE (IF degrees >= 0 THEN "E" ELSE "W")

(***************************************************************************)
(* NmeaMsg: the engine, as operators on the record of its attributes.      *)
(***************************************************************************)
\* NmeaMsg._magvar_update; lookup_ok = FALSE is the except branch.
magvar_update(e, lookup_ok) ==
    IF lookup_ok
    THEN LET d == geomag_d(e.position.lat, e.position.lng)
         IN  [e EXCEPT !.magvar = Abs(d), !.magvar_dec = d,
                       !.magvar_direct = IF d > 0 THEN "E" ELSE "W"]
    ELSE [e EXCEPT !.magvar_dec = 0, !.magvar_direct = "E"]

\* NmeaMsg.position_update
position_update(e, utc_date_time_prev) ==
    LET time_delta == e.utc_date_time - utc_date_time_prev
        distance == e.speed * time_delta
        end == geod_fwd(e.position.lng, e.position.lat, e.heading, distance)
    IN  [e EXCEPT !.position.lat = end.lat, !.position.lng = end.lng]

\* The first part of NmeaMsg.__next__: clock, position, variation.
advance_position(e, now, lookup_ok) ==
    LET e1 == [e EXCEPT !.utc_date_time = now]
    IN  IF e.speed > 0
        THEN magvar_update(position_update(e1, e.utc_date_time), lookup_ok)
        ELSE e1

\* A heading reconciliation that runs the update on every tick.
reconcile_heading_always(e) ==
    [e EXCEPT !.change_in_progress = TRUE,
              !.heading = heading_update(e.heading, e.heading_targeted)]

\* The heading, speed and altitude reconciliation of NmeaMsg.__next__.
reconcile_heading(e) ==
    IF e.heading # e.heading_targeted
    THEN [e EXCEPT !.change_in_progress = TRUE,
                   !.heading = heading_update(e.heading, e.heading_targeted)]
    ELSE e

\* A speed reconciliation that slows down by the increment whatever is left
\* to the target.
reconcile_speed_plain_slowdown(e) ==
    IF e.speed # e.speed_targeted
    THEN [e EXCEPT !.change_in_progress = TRUE,
                   !.speed = IF e.speed_targeted > e.speed
                             THEN speed_update(e.speed, e.speed_targeted)
                             ELSE Round1(e.speed - speed_increment)]
    ELSE e

reconcile_speed(e) ==
    IF e.speed # e.speed_targeted
    THEN [e EXCEPT !.change_in_progress = TRUE,
                   !.speed = speed_update(e.speed, e.speed_targeted)]
    ELSE e

reconcile_altitude(e) ==
    IF e.altitude # e.altitude_targeted
    THEN [e EXCEPT !.change_in_progress = TRUE,
                   !.altitude = altitude_update(e.altitude, e.altitude_targeted)]
    ELSE e

\* The NMEA form and the hemisphere letters of the position dictionary.
position_nmea(e) ==
    [e EXCEPT !.position.lat_nmea = ddd2nmea(e.position.lat),
              !.position.lng_nmea = ddd2nmea(e.position.lng),
              !.position.lat_dir = ll2dir(e.position.lat, "lat"),
              !.position.lng_dir = ll2dir(e.position.lng, "lng")]

\* A readiness test that does not look at the altitude.
updates_ready_no_altitude(e) ==
    IF /\ e.change_in_progress = TRUE
       /\ e.heading = e.heading_targeted
       /\ e.speed = e.speed_targeted
    THEN [e EXCEPT !.change_in_progress = FALSE]
    ELSE e

\* "All updates done": the progress flag is cleared.
updates_ready(e) ==
    IF /\ e.change_in_progress = TRUE
       /\ e.heading = e.heading_targeted
       /\ e.speed = e.speed_targeted
       /\ e.altitude = e.altitude_targeted
    THEN [e EXCEPT !.change_in_progress = FALSE]
    ELSE e

\* A first half that also writes the hour offset of ZDA anew, as UTC.
set_messages_fix_utc_offset(e) ==
    [e EXCEPT !.gpgga.utc_time = strftime_HMS(e.utc_date_time),
              !.gpgga.altitude = e.altitude,
              !.gpgga.antenna_altitude_above_msl = e.altitude + 25000,
              !.gpgll.utc_time = strftime_HMS(e.utc_date_time),
              !.gprmc.utc_time = strftime_HMS(e.utc_date_time),
              !.gprmc.utc_date = strftime_date(e.utc_date_time),
              !.gpzda.offset_hrs = [none |-> FALSE, int |-> 0]]

\* "Set new values in messages", first half: GGA, GLL and the RMC time.
set_messages_fix(e) ==
    [e EXCEPT !.gpgga.utc_time = strftime_HMS(e.utc_date_time),
              !.gpgga.altitude = e.altitude,
              !.gpgga.antenna_altitude_above_msl = e.altitude + 25000,
              !.gpgll.utc_time = strftime_HMS(e.utc_date_time),
              !.gprmc.utc_time = strftime_HMS(e.utc_date_time),
              !.gprmc.utc_date = strftime_date(e.utc_date_time)]

\* A second half that leaves the ZDA sentence as it was.
set_messages_course_no_zda(e) ==
    [e EXCEPT !.gprmc.sog = e.speed,
              !.gprmc.cmg = e.heading,
              !.gprmc.magnetic_var_value = e.magvar,
              !.gprmc.magnetic_var_direct = e.magvar_direct,
              !.gphdt.heading = e.heading,
              !.gpvtg.heading_true = e.heading,
              !.gpvtg.heading_magnetic = Round1(e.heading - e.magvar),
              !.gpvtg.sog_knots = e.speed]

\* "Set new values in messages", second half: RMC, HDT, VTG, ZDA.
set_messages_course(e) ==
    [e EXCEPT !.gprmc.sog = e.speed,
              !.gprmc.cmg = e.heading,
              !.gprmc.magnetic_var_value = e.magvar,
              !.gprmc.magnetic_var_direct = e.magvar_direct,
              !.gphdt.heading = e.heading,
              !.gpvtg.heading_true = e.heading,
              !.gpvtg.heading_magnetic = Round1(e.heading - e.magvar),
              !.gpvtg.sog_knots = e.speed,
              !.gpzda.utc_time = strftime_HMS(e.utc_date_time),
              !.gpzda.utc_date = strftime_date(e.utc_date_time)]

\* A tick that reconciles the speed before it moves the unit.
nmea_next_speed_first(e, now, lookup_ok) ==
    set_messages_course(set_messages_fix(updates_ready(position_nmea(
        reconcile_altitude(reconcile_heading(
            advance_position(reconcile_speed(e), now, lookup_ok)))))))

\* NmeaMsg.__next__, the whole tick.
nmea_next(e, now, lookup_ok) ==
    set_messages_course(set_messages_fix(updates_ready(position_nmea(
        reconcile_altitude(reconcile_speed(reconcile_heading(
            advance_position(e, now, lookup_ok))))))))

\* GpgsvGroup: satellites per GSV sentence and the default satellite total.
sats_in_sentence == 4
sats_total_default == 15

\* ceil(a / b) for positive b.
ceil(a, b) == (a + b - 1) \div b

\* A sentence list with GLL ahead of the satellite sentences.
nmea_sentences_gll_first(num_of_gsv_in_group) ==
    <<[id |-> "GPGGA", num |-> 0], [id |-> "GPGLL", num |-> 0],
      [id |-> "GPGSA", num |-> 0]>>
    \o [n \in 1..num_of_gsv_in_group |-> [id |-> "GPGSV", num |-> n]]
    \o <<[id |-> "GPRMC", num |-> 0], [id |-> "GPHDT", num |-> 0],
         [id |-> "GPVTG", num |-> 0], [id |-> "GPZDA", num |-> 0]>>

\* self.nmea_sentences: the renderers in the order they are sent, by
\* sentence ID (and sentence number, for the GSV sentences of the group).
nmea_sentences_list(num_of_gsv_in_group) ==
    <<[id |-> "GPGGA", num |-> 0], [id |-> "GPGSA", num |-> 0]>>
    \o [n \in 1..num_of_gsv_in_group |-> [id |-> "GPGSV", num |-> n]]
    \o <<[id |-> "GPGLL", num |-> 0], [id |-> "GPRMC", num |-> 0],
         [id |-> "GPHDT", num |-> 0], [id |-> "GPVTG", num |-> 0],
         [id |-> "GPZDA", num |-> 0]>>

\* NmeaMsg.__init__
nmea_init(position_init, altitude_init, speed_init, heading_init, now, lookup_ok) ==
    LET e0 == [utc_date_time |-> now,
               position |-> [lat |-> position_init.lat, lng |-> position_init.lng,
                             lat_nmea |-> ddd2nmea(position_init.lat),
                             lng_nmea |-> ddd2nmea(position_init.lng),
                             lat_dir |-> ll2dir(position_init.lat, "lat"),
                             lng_dir |-> ll2dir(position_init.lng, "lng")],
               speed |-> speed_init, speed_targeted |-> speed_init,
               altitude |-> altitude_init, altitude_targeted |-> altitude_init,
               magvar |-> 210, magvar_dec |-> 210, magvar_direct |-> "E"]
        m == magvar_update(e0, lookup_ok)
    IN  [utc_date_time |-> now,
         position |-> e0.position,
         speed |-> speed_init, speed_targeted |-> speed_init,
         altitude |-> altitude_init, altitude_targeted |-> altitude_init,
         magvar |-> m.magvar, magvar_dec |-> m.magvar_dec,
         magvar_direct |-> m.magvar_direct,
         heading |-> heading_init, heading_targeted |-> heading_init,
         heading_magnetic |-> heading_init - m.magvar,
         gpgga |-> [utc_time |-> strftime_HMS(now), altitude |-> altitude_init,
                    antenna_altitude_above_msl |-> altitude_init + 25000],
         gpgll |-> [utc_time |-> strftime_HMS(now)],
         gprmc |-> [utc_time |-> strftime_HMS(now), utc_date |-> strftime_date(now),
                    sog |-> speed_init, cmg |-> heading_init,
                    magnetic_var_value |-> m.magvar,
                    magnetic_var_direct |-> m.magvar_direct],
         gphdt |-> [heading |-> heading_init],
         gpvtg |-> [heading_true |-> heading_init, heading_magnetic |-> 0,
                    sog_knots |-> speed_init],
         gpzda |-> [utc_time |-> strftime_HMS(now), utc_date |-> strftime_date(now)],
         change_in_progress |-> FALSE,
         nmea_sentences |->
            nmea_sentences_list(ceil(sats_total_default, sats_in_sentence))]

(***************************************************************************)
(* The engine driven by one sink and the control thread.                   *)
(***************************************************************************)
Bump(n) == IF n < MaxTicks THEN n + 1 ELSE n

Workers == 1..MaxWorkers

\* NmeaSrvThread.__init__, for a thread not started yet.
NoThreads ==
    /\ threads = <<>>
    /\ pc = [w \in Workers |-> "new"]
    /\ lock = [w \in Workers |-> FALSE]
    /\ pending = [w \in Workers |->
                    [heading |-> 0, speed |-> 0, altitude |-> 0,
                     heading_change |-> FALSE, speed_change |-> FALSE,
                     altitude_change |-> FALSE]]
    /\ role = [w \in Workers |-> "none"]
    /\ nmea_list = [w \in Workers |-> <<>>]
    /\ ctl = [pc |-> "prompt", todo |-> <<>>]
    /\ clock = 0
    /\ advances = 0
    /\ crowd = FALSE

\* No single-sink thread, the process running, no utility called.
NoSink ==
    /\ sink = "none"
    /\ process = "running"
    /\ call = [fn |-> "none"]

Init ==
    /\ \E c \in InitCases, ok \in BOOLEAN :
          nmea_object = nmea_init(c.position, c.altitude, c.speed, c.heading, 0, ok)
    /\ op = "init"
    /\ ticks = 0
    /\ start = [heading |-> nmea_object.heading, target |-> nmea_object.heading_targeted]
    /\ presses = 0
    /\ NoThreads
    /\ NoSink
    /\ produced = {}

\* One cycle of a lone sink worker: next(self.nmea_object).
Tick ==
    /\ \E dt \in 1..MaxDt, ok \in BOOLEAN :
          /\ nmea_object.utc_date_time + dt <= MaxTime
          /\ nmea_object' = nmea_next(nmea_object, nmea_object.utc_date_time + dt, ok)
    /\ op' = "tick"
    /\ ticks' = Bump(ticks)
    /\ UNCHANGED <<start, presses>>
    /\ UNCHANGED workers
    /\ UNCHANGED rest

Written(e) ==
    /\ nmea_object' = e
    /\ op' = "set"
    /\ ticks' = 0
    /\ start' = [heading |-> e.heading, target |-> e.heading_targeted]
    /\ presses' = presses + 1
    /\ UNCHANGED workers
    /\ UNCHANGED rest

\* utils.change_heading_input / change_speed_input / change_altitude_input:
\* the typed value, or the old one on an empty answer.
change_heading_input(c, heading_old) ==
    IF c.heading_typed THEN c.heading ELSE heading_old

change_speed_input(c, speed_old) ==
    IF c.speed_typed THEN c.speed ELSE speed_old

change_altitude_input(c, altitude_old) ==
    IF c.altitude_typed THEN c.altitude ELSE altitude_old

\* Application.run, no sink thread alive: the change prompt writes the three
\* targets; an empty answer keeps the value read from the engine.
ChangeInput ==
    /\ presses < MaxPresses
    /\ \E c \in PromptCases :
          Written([nmea_object EXCEPT
                      !.heading_targeted = change_heading_input(c, nmea_object.heading),
                      !.speed_targeted = change_speed_input(c, nmea_object.speed),
                      !.altitude_targeted = change_altitude_input(c, nmea_object.altitude)])

\* NmeaGuiApplication: the six control buttons.
updateAltPlus ==
    /\ presses < MaxPresses
    /\ Written([nmea_object EXCEPT !.altitude_targeted = @ + 10000])

updateAltMinus ==
    /\ presses < MaxPresses
    /\ Written([nmea_object EXCEPT !.altitude_targeted = @ - 10000])

updateSpeedPlus ==
    /\ presses < MaxPresses
    /\ Written([nmea_object EXCEPT !.speed_targeted = @ + 100])

updateSpeedMinus ==
    /\ presses < MaxPresses
    /\ Written([nmea_object EXCEPT !.speed_targeted = @ - 100])

updateHeadPlus ==
    /\ presses < MaxPresses
    /\ Written([nmea_object EXCEPT !.heading_targeted = @ + 100])

updateHeadMinus ==
    /\ presses < MaxPresses
    /\ Written([nmea_object EXCEPT !.heading_targeted = @ - 100])

Next ==
    \/ Tick
    \/ ChangeInput
    \/ updateAltPlus
    \/ updateAltMinus
    \/ updateSpeedPlus
    \/ updateSpeedMinus
    \/ updateHeadPlus
    \/ updateHeadMinus

Spec == Init /\ [][Next]_vars

(***************************************************************************)
(* The change prompt answered more than once while no sink thread is alive *)
(* (the engine advanced by the cycles of a thread that has since ended, or *)
(* about to be): each answer and the three targets it leaves.              *)
(***************************************************************************)
\* Application.run, lines 132-158 with an empty thread list; call keeps the
\* answers typed.
ChangeRequest ==
    /\ presses < MaxRequests
    /\ \E c \in PromptCases :
          /\ nmea_object' = [nmea_object EXCEPT
                 !.heading_targeted = change_heading_input(c, nmea_object.heading),
                 !.speed_targeted = change_speed_input(c, nmea_object.speed),
                 !.altitude_targeted = change_altitude_input(c, nmea_object.altitude)]
          /\ call' = [fn |-> "change", typed |-> c]
    /\ op' = "set"
    /\ ticks' = 0
    /\ start' = [heading |-> nmea_object.heading,
                 target |-> nmea_object'.heading_targeted]
    /\ presses' = presses + 1
    /\ UNCHANGED workers
    /\ UNCHANGED <<sink, process>>

NextPrompt ==
    \/ Tick
    \/ ChangeRequest

SpecPrompt == Init /\ [][NextPrompt]_vars

(***************************************************************************)
(* The TCP server: one NmeaSrvThread per connected client, all on the same *)
(* engine, the control thread at the change prompt, and the GUI buttons.   *)
(* A thread switch can fall between any two statements, so run() and       *)
(* __next__ are cut into steps.                                            *)
(***************************************************************************)
max_threads == 10

\* What the sentences print: GGA and GLL, then RMC, HDT, VTG and ZDA, in
\* the order of nmea_sentences (GSA and GSV never change after construction).
fields_fix(e) ==
    [gga |-> <<e.gpgga.utc_time, e.position.lat_nmea, e.position.lat_dir,
               e.position.lng_nmea, e.position.lng_dir, e.gpgga.altitude,
               e.gpgga.antenna_altitude_above_msl>>,
     gll |-> <<e.position.lat_nmea, e.position.lat_dir, e.position.lng_nmea,
               e.position.lng_dir, e.gpgll.utc_time>>]

fields_course(e) ==
    [rmc |-> <<e.gprmc.utc_time, e.position.lat_nmea, e.position.lat_dir,
               e.position.lng_nmea, e.position.lng_dir, e.gprmc.sog, e.gprmc.cmg,
               e.gprmc.utc_date, e.gprmc.magnetic_var_value,
               e.gprmc.magnetic_var_direct>>,
     hdt |-> <<e.gphdt.heading>>,
     vtg |-> <<e.gpvtg.heading_true, e.gpvtg.heading_magnetic, e.gpvtg.sog_knots>>,
     zda |-> <<e.gpzda.utc_time, e.gpzda.utc_date>>]

Batch(e) == <<fields_fix(e), fields_course(e)>>

\* Gpvtg.sog_kmhr: round(self.sog_knots * 1.852, 1), in tenths of a km/h
\* from hundredths of a knot; a tie goes to the even tenth.
sog_kmhr(sog_knots) ==
    LET scaled == sog_knots * 1852
        r == scaled % 10000
        lo == scaled \div 10000
    IN  IF r < 5000 THEN lo
        ELSE IF r > 5000 THEN lo + 1
        ELSE IF lo % 2 = 0 THEN lo ELSE lo + 1

\* The fields of Gpvtg.__str__: true heading, magnetic heading, knots, km/h.
Gpvtg_fields(e) ==
    [heading_true |-> e.gpvtg.heading_true,
     heading_magnetic |-> e.gpvtg.heading_magnetic,
     sog_knots |-> e.gpvtg.sog_knots,
     sog_kmhr |-> sog_kmhr(e.gpvtg.sog_knots)]

\* The unit the server is started with: moving east at 10 knots. In the
\* server runs the declination lookup of _magvar_update always succeeds.
ServerCase ==
    [position |-> [lat |-> 0, lng |-> 0], altitude |-> 152000,
     speed |-> 1000, heading |-> 9000]

InitServer ==
    /\ nmea_object = nmea_init(ServerCase.position, ServerCase.altitude,
                              ServerCase.speed, ServerCase.heading, 0, TRUE)
    /\ op = "init"
    /\ ticks = 0
    /\ start = [heading |-> nmea_object.heading, target |-> nmea_object.heading_targeted]
    /\ presses = 0
    /\ NoThreads
    /\ NoSink
    /\ produced = {Batch(nmea_object)}

Alive(w) == \E i \in 1..Len(threads) : threads[i] = w

Remove(seq, w) == SelectSeq(seq, LAMBDA x : x # w)

\* run_telnet_server_thread: a client connects and its thread is started.
Accept ==
    /\ Len(threads) < max_threads
    /\ \E w \in Workers :
          /\ pc[w] = "new"
          /\ \A v \in Workers : v < w => pc[v] # "new"
          /\ threads' = Append(threads, w)
          /\ pc' = [pc EXCEPT ![w] = "idle"]
    /\ crowd' = (crowd \/ Len(threads') >= 2)
    /\ UNCHANGED <<lock, pending, role, nmea_list, ctl, clock, advances, produced>>
    /\ UNCHANGED engine
    /\ UNCHANGED rest

\* run(): with self._lock, the pending heading, speed and altitude go to the
\* engine's targets.
Apply(w) ==
    /\ pc[w] = "idle"
    /\ ~lock[w]
    /\ lock' = [lock EXCEPT ![w] = TRUE]
    /\ nmea_object' =
          [nmea_object EXCEPT
              !.heading_targeted = IF pending[w].heading_change
                                   THEN pending[w].heading ELSE @,
              !.speed_targeted = IF pending[w].speed_change
                                 THEN pending[w].speed ELSE @,
              !.altitude_targeted = IF pending[w].altitude_change
                                    THEN pending[w].altitude ELSE @]
    /\ pending' = [pending EXCEPT ![w].heading_change = FALSE,
                                  ![w].speed_change = FALSE,
                                  ![w].altitude_change = FALSE]
    /\ pc' = [pc EXCEPT ![w] = "elect"]
    /\ UNCHANGED <<op, ticks, start, presses>>
    /\ UNCHANGED <<threads, role, nmea_list, ctl, clock, advances, crowd, produced>>
    /\ UNCHANGED rest

\* run(): only the first thread of the list iterates over the NMEA object.
Elect(w) ==
    /\ pc[w] = "elect"
    /\ IF Len(threads) > 1 /\ w # threads[1]
       THEN /\ role' = [role EXCEPT ![w] = "reader"]
            /\ pc' = [pc EXCEPT ![w] = "render"]
       ELSE /\ role' = [role EXCEPT ![w] = "advancer"]
            /\ pc' = [pc EXCEPT ![w] = "advance"]
    /\ UNCHANGED <<threads, lock, pending, nmea_list, ctl, clock, advances, crowd, produced>>
    /\ UNCHANGED engine
    /\ UNCHANGED rest

\* next(self.nmea_object), up to "All updates done".
Advance1(w) ==
    /\ pc[w] = "advance"
    /\ nmea_object' = updates_ready(position_nmea(reconcile_altitude(
          reconcile_speed(reconcile_heading(
              advance_position(nmea_object, clock, TRUE))))))
    /\ advances' = advances + 1
    /\ pc' = [pc EXCEPT ![w] = "messages"]
    /\ UNCHANGED <<op, ticks, start, presses>>
    /\ UNCHANGED <<threads, lock, pending, role, nmea_list, ctl, clock, crowd, produced>>
    /\ UNCHANGED rest

\* next(self.nmea_object), "Set new values in messages", first half.
Advance2(w) ==
    /\ pc[w] = "messages"
    /\ nmea_object' = set_messages_fix(nmea_object)
    /\ pc' = [pc EXCEPT ![w] = "messages2"]
    /\ UNCHANGED <<op, ticks, start, presses>>
    /\ UNCHANGED <<threads, lock, pending, role, nmea_list, ctl, clock, advances, crowd, produced>>
    /\ UNCHANGED rest

\* next(self.nmea_object), second half and return.
Advance3(w) ==
    /\ pc[w] = "messages2"
    /\ nmea_object' = set_messages_course(nmea_object)
    /\ produced' = produced \cup {Batch(nmea_object')}
    /\ pc' = [pc EXCEPT ![w] = "render"]
    /\ UNCHANGED <<op, ticks, start, presses>>
    /\ UNCHANGED <<threads, lock, pending, role, nmea_list, ctl, clock, advances, crowd>>
    /\ UNCHANGED rest

\* [f'{_}' for _ in ...nmea_sentences]: the sentences up to GLL.
Render1(w) ==
    /\ pc[w] = "render"
    /\ nmea_list' = [nmea_list EXCEPT ![w] = <<fields_fix(nmea_object)>>]
    /\ pc' = [pc EXCEPT ![w] = "render2"]
    /\ UNCHANGED <<threads, lock, pending, role, ctl, clock, advances, crowd, produced>>
    /\ UNCHANGED engine
    /\ UNCHANGED rest

\* The sentences from RMC on.
Render2(w) ==
    /\ pc[w] = "render2"
    /\ nmea_list' = [nmea_list EXCEPT ![w] = Append(@, fields_course(nmea_object))]
    /\ pc' = [pc EXCEPT ![w] = "send"]
    /\ UNCHANGED <<threads, lock, pending, role, ctl, clock, advances, crowd, produced>>
    /\ UNCHANGED engine
    /\ UNCHANGED rest

\* run(): every sendall succeeds; the lock is released and the thread sleeps.
Send(w) ==
    /\ pc[w] = "send"
    /\ lock' = [lock EXCEPT ![w] = FALSE]
    /\ pc' = [pc EXCEPT ![w] = "sleep"]
    /\ role' = [role EXCEPT ![w] = "none"]
    /\ nmea_list' = [nmea_list EXCEPT ![w] = <<>>]
    /\ UNCHANGED <<threads, pending, ctl, clock, advances, crowd, produced>>
    /\ UNCHANGED engine
    /\ UNCHANGED rest

\* run(): BrokenPipeError or OSError: conn.close() and sys.exit().
SendFail(w) ==
    /\ pc[w] = "send"
    /\ lock' = [lock EXCEPT ![w] = FALSE]
    /\ pc' = [pc EXCEPT ![w] = "dead"]
    /\ threads' = Remove(threads, w)
    /\ role' = [role EXCEPT ![w] = "none"]
    /\ nmea_list' = [nmea_list EXCEPT ![w] = <<>>]
    /\ UNCHANGED <<pending, ctl, clock, advances, crowd, produced>>
    /\ UNCHANGED engine
    /\ UNCHANGED rest

\* Half of the 1.1 s cadence interval goes by.
Pass ==
    /\ clock % 2 = 0
    /\ Len(threads) > 0
    /\ clock' = clock + 1
    /\ UNCHANGED <<threads, pc, lock, pending, role, nmea_list, ctl, advances, crowd, produced>>
    /\ UNCHANGED engine
    /\ UNCHANGED rest

\* time.sleep(self.thread_sleep) ends: every live thread has done its cycle
\* of this interval and the next interval begins.
NextInterval ==
    /\ Len(threads) > 0
    /\ \A w \in Workers : Alive(w) => pc[w] = "sleep"
    /\ clock \div 2 < MaxIntervals
    /\ clock' = 2 * (clock \div 2 + 1)
    /\ pc' = [w \in Workers |-> IF Alive(w) THEN "idle" ELSE pc[w]]
    /\ advances' = 0
    /\ crowd' = (Len(threads) >= 2)
    /\ UNCHANGED <<threads, lock, pending, role, nmea_list, ctl, produced>>
    /\ UNCHANGED engine
    /\ UNCHANGED rest

\* Application.run: the change prompt. With live threads the new values go
\* to each thread's setters; without, straight to the engine.
CtlPrompt ==
    /\ process = "running"
    /\ ctl.pc = "prompt"
    /\ presses < MaxPresses
    /\ presses' = presses + 1
    /\ \E c \in PromptCases :
          LET h == change_heading_input(c, nmea_object.heading)
              s == change_speed_input(c, nmea_object.speed)
              a == change_altitude_input(c, nmea_object.altitude)
          IN
          IF Len(threads) > 0
          THEN /\ ctl' = [pc |-> "set", todo |-> threads,
                          heading |-> h, speed |-> s, altitude |-> a,
                          heading_set |-> (h # nmea_object.heading),
                          speed_set |-> (s # nmea_object.speed),
                          altitude_set |-> (a # nmea_object.altitude)]
               /\ UNCHANGED <<nmea_object, op, ticks, start>>
          ELSE /\ nmea_object' = [nmea_object EXCEPT !.heading_targeted = h,
                                                     !.speed_targeted = s,
                                                     !.altitude_targeted = a]
               /\ op' = "set"
               /\ ticks' = 0
               /\ start' = [heading |-> nmea_object.heading, target |-> h]
               /\ UNCHANGED ctl
    /\ UNCHANGED <<threads, pc, lock, pending, role, nmea_list, clock, advances, crowd, produced>>
    /\ UNCHANGED rest

\* thr.set_heading / set_speed / set_altitude on the next thread of the list,
\* under that thread's lock.
CtlSet ==
    /\ process = "running"
    /\ ctl.pc = "set"
    /\ LET w == Head(ctl.todo)
       IN  /\ ~lock[w]
           /\ pending' = [pending EXCEPT
                  ![w].heading = IF ctl.heading_set THEN ctl.heading ELSE @,
                  ![w].heading_change = IF ctl.heading_set THEN TRUE ELSE @,
                  ![w].speed = IF ctl.speed_set THEN ctl.speed ELSE @,
                  ![w].speed_change = IF ctl.speed_set THEN TRUE ELSE @,
                  ![w].altitude = IF ctl.altitude_set THEN ctl.altitude ELSE @,
                  ![w].altitude_change = IF ctl.altitude_set THEN TRUE ELSE @]
    /\ ctl' = IF Len(ctl.todo) = 1 THEN [pc |-> "prompt", todo |-> <<>>]
              ELSE [ctl EXCEPT !.todo = Tail(@)]
    /\ UNCHANGED <<threads, pc, lock, role, nmea_list, clock, advances, crowd, produced>>
    /\ UNCHANGED engine
    /\ UNCHANGED rest

NextServer ==
    \/ Accept
    \/ \E w \in Workers : Apply(w)
    \/ \E w \in Workers : Elect(w)
    \/ \E w \in Workers : Advance1(w)
    \/ \E w \in Workers : Advance2(w)
    \/ \E w \in Workers : Advance3(w)
    \/ \E w \in Workers : Render1(w)
    \/ \E w \in Workers : Render2(w)
    \/ \E w \in Workers : Send(w)
    \/ \E w \in Workers : SendFail(w)
    \/ Pass
    \/ NextInterval
    \/ CtlPrompt
    \/ CtlSet
    \/ updateAltPlus
    \/ updateAltMinus
    \/ updateSpeedPlus
    \/ updateSpeedMinus
    \/ updateHeadPlus
    \/ updateHeadMinus

SpecServer == InitServer /\ [][NextServer]_vars

(***************************************************************************)
(* Two connected clients and a sequence of change requests: the prompt of  *)
(* Application.run answered more than once while both threads cycle.       *)
(***************************************************************************)
InitRequests ==
    /\ nmea_object = nmea_init(ServerCase.position, ServerCase.altitude,
                              ServerCase.speed, ServerCase.heading, 0, TRUE)
    /\ op = "init"
    /\ ticks = 0
    /\ start = [heading |-> nmea_object.heading, target |-> nmea_object.heading_targeted]
    /\ presses = 0
    /\ threads = <<1, 2>>
    /\ pc = [w \in Workers |-> IF w <= 2 THEN "idle" ELSE "new"]
    /\ lock = [w \in Workers |-> FALSE]
    /\ pending = [w \in Workers |->
                    [heading |-> 0, speed |-> 0, altitude |-> 0,
                     heading_change |-> FALSE, speed_change |-> FALSE,
                     altitude_change |-> FALSE]]
    /\ role = [w \in Workers |-> "none"]
    /\ nmea_list = [w \in Workers |-> <<>>]
    /\ ctl = [pc |-> "prompt", todo |-> <<>>]
    /\ clock = 0
    /\ advances = 0
    /\ crowd = TRUE
    /\ NoSink
    /\ produced = {Batch(nmea_object)}

\* Application.run with connected clients: the prompt is answered and the
\* new values are kept for the setters of every thread of the list.  start
\* keeps the heading handed to the setters last.
CtlRequest ==
    /\ process = "running"
    /\ ctl.pc = "prompt"
    /\ Len(threads) > 0
    /\ presses < MaxRequests
    /\ presses' = presses + 1
    /\ \E c \in PromptCases :
          LET h == change_heading_input(c, nmea_object.heading)
              s == change_speed_input(c, nmea_object.speed)
              a == change_altitude_input(c, nmea_object.altitude)
          IN  /\ ctl' = [pc |-> "set", todo |-> threads,
                         heading |-> h, speed |-> s, altitude |-> a,
                         heading_set |-> (h # nmea_object.heading),
                         speed_set |-> (s # nmea_object.speed),
                         altitude_set |-> (a # nmea_object.altitude)]
              /\ start' = [heading |-> nmea_object.heading,
                           target |-> IF h # nmea_object.heading
                                      THEN h ELSE start.target]
    /\ UNCHANGED <<nmea_object, op, ticks>>
    /\ UNCHANGED <<threads, pc, lock, pending, role, nmea_list, clock, advances, crowd, produced>>
    /\ UNCHANGED rest

NextRequests ==
    \/ \E w \in Workers : Apply(w)
    \/ \E w \in Workers : Elect(w)
    \/ \E w \in Workers : Advance1(w)
    \/ \E w \in Workers : Advance2(w)
    \/ \E w \in Workers : Advance3(w)
    \/ \E w \in Workers : Render1(w)
    \/ \E w \in Workers : Render2(w)
    \/ \E w \in Workers : Send(w)
    \/ NextInterval
    \/ CtlRequest
    \/ CtlSet

SpecRequests == InitRequests /\ [][NextRequests]_vars

(***************************************************************************)
(* Two connected clients over many cycles, one of which may stop reading:  *)
(* which thread calls next() when the first thread of the list is gone or  *)
(* is held in sendall().  Time stands still here: only the order of the    *)
(* cycles matters.                                                         *)
(***************************************************************************)
\* run(): conn.sendall() does not return, because the client has stopped
\* reading and the send buffer is full.  The thread stays alive, inside
\* its with block.
SendBlocks(w) ==
    /\ pc[w] = "send"
    /\ pc' = [pc EXCEPT ![w] = "blocked"]
    /\ UNCHANGED <<threads, lock, pending, role, nmea_list, ctl, clock, advances, crowd, produced>>
    /\ UNCHANGED engine
    /\ UNCHANGED rest

\* time.sleep(self.thread_sleep) ends in every thread that sleeps, and the
\* next cycle of those threads begins.
NextCycle ==
    /\ \E w \in Workers : Alive(w) /\ pc[w] = "sleep"
    /\ \A w \in Workers : Alive(w) => pc[w] \in {"sleep", "blocked"}
    /\ pc' = [w \in Workers |-> IF Alive(w) /\ pc[w] = "sleep" THEN "idle" ELSE pc[w]]
    /\ advances' = 0
    /\ UNCHANGED <<threads, lock, pending, role, nmea_list, ctl, clock, crowd, produced>>
    /\ UNCHANGED engine
    /\ UNCHANGED rest

\* One step of run() of thread w.
Run(w) ==
    \/ Apply(w)
    \/ Elect(w)
    \/ Advance1(w)
    \/ Advance2(w)
    \/ Advance3(w)
    \/ Render1(w)
    \/ Render2(w)
    \/ Send(w)
    \/ SendFail(w)
    \/ SendBlocks(w)

NextClients ==
    \/ \E w \in Workers : Run(w)
    \/ NextCycle

\* Every thread that can take a step of run() takes one in the end, and a
\* sleep that can end ends.
SpecClients ==
    /\ InitRequests
    /\ [][NextClients]_vars
    /\ \A w \in Workers : WF_vars(Run(w))
    /\ WF_vars(NextCycle)

(***************************************************************************)
(* The accept loop of run_telnet_server_thread with more connections than  *)
(* the server allows.  threads holds the numbers of the connections whose  *)
(* 'nmea_srv' thread is alive; call holds the last connection.             *)
(***************************************************************************)
InitAccept ==
    /\ InitServer

\* An accept loop that starts a thread while at most max_threads are alive.
AcceptConn_one_more ==
    /\ call.fn \in {"none", "accept"}
    /\ LET conn == IF call.fn = "none" THEN 1 ELSE call.conn + 1
       IN  /\ conn <= MaxConns
           /\ IF Len(threads) <= max_threads
              THEN /\ threads' = Append(threads, conn)
                   /\ call' = [fn |-> "accept", conn |-> conn, closed |-> FALSE]
              ELSE /\ threads' = threads
                   /\ call' = [fn |-> "accept", conn |-> conn, closed |-> TRUE]
    /\ UNCHANGED <<pc, lock, pending, role, nmea_list, ctl, clock, advances, crowd, produced>>
    /\ UNCHANGED engine
    /\ UNCHANGED <<sink, process>>

\* run_telnet_server_thread, one turn of the loop: sck.accept() returns a
\* connection; a thread is started for it when fewer than max_threads
\* 'nmea_srv' threads are alive, and the connection is closed otherwise.
AcceptConn ==
    /\ call.fn \in {"none", "accept"}
    /\ LET conn == IF call.fn = "none" THEN 1 ELSE call.conn + 1
       IN  /\ conn <= MaxConns
           /\ IF Len(threads) < max_threads
              THEN /\ threads' = Append(threads, conn)
                   /\ call' = [fn |-> "accept", conn |-> conn, closed |-> FALSE]
              ELSE /\ threads' = threads
                   /\ call' = [fn |-> "accept", conn |-> conn, closed |-> TRUE]
    /\ UNCHANGED <<pc, lock, pending, role, nmea_list, ctl, clock, advances, crowd, produced>>
    /\ UNCHANGED engine
    /\ UNCHANGED <<sink, process>>

\* NmeaSrvThread.run: a client is gone, its thread closes the connection and
\* ends.
ClientGone ==
    /\ \E i \in 1..Len(threads) :
          threads' = [j \in 1..(Len(threads) - 1) |->
                         IF j < i THEN threads[j] ELSE threads[j + 1]]
    /\ UNCHANGED <<pc, lock, pending, role, nmea_list, ctl, clock, advances, crowd, produced>>
    /\ UNCHANGED engine
    /\ UNCHANGED rest

NextAccept ==
    \/ AcceptConn
    \/ ClientGone

SpecAccept == InitAccept /\ [][NextAccept]_vars

(***************************************************************************)
(* A single-sink run: one NmeaStreamThread (TCP or UDP), NmeaSerialThread  *)
(* or NmeaOutputThread on the engine, and the control thread at the change *)
(* prompt.  The thread is named 'nmea_srv...' like a TCP client's thread,  *)
(* so the prompt reaches it through its setters.                           *)
(***************************************************************************)
SinkKinds == {"tcp_stream", "udp_stream", "serial", "log"}

\* run(): the pending heading, speed and altitude, as written to the targets.
apply_pending(e, p) ==
    [e EXCEPT !.heading_targeted = IF p.heading_change THEN p.heading ELSE @,
              !.speed_targeted = IF p.speed_change THEN p.speed ELSE @,
              !.altitude_targeted = IF p.altitude_change THEN p.altitude ELSE @]

InitSink ==
    /\ \E c \in InitCases, ok \in BOOLEAN :
          nmea_object = nmea_init(c.position, c.altitude, c.speed, c.heading, 0, ok)
    /\ op = "init"
    /\ ticks = 0
    /\ start = [heading |-> nmea_object.heading, target |-> nmea_object.heading_targeted]
    /\ presses = 0
    /\ threads = <<1>>
    /\ pc = [w \in Workers |-> IF w = 1 THEN "idle" ELSE "new"]
    /\ lock = [w \in Workers |-> FALSE]
    /\ pending = [w \in Workers |->
                    [heading |-> 0, speed |-> 0, altitude |-> 0,
                     heading_change |-> FALSE, speed_change |-> FALSE,
                     altitude_change |-> FALSE]]
    /\ role = [w \in Workers |-> "none"]
    /\ nmea_list = [w \in Workers |-> <<>>]
    /\ ctl = [pc |-> "prompt", todo |-> <<>>]
    /\ clock = 0
    /\ advances = 0
    /\ crowd = FALSE
    /\ produced = {}
    /\ sink \in SinkKinds
    /\ process = "running"
    /\ call = [fn |-> "none"]

\* run(): under the thread's lock the pending changes are applied and
\* next(self.nmea_object) gives the batch to send.
SinkAdvance ==
    /\ process = "running"
    /\ pc[1] = "idle"
    /\ ~lock[1]
    /\ \E dt \in 1..MaxDt, ok \in BOOLEAN :
          /\ nmea_object.utc_date_time + dt <= MaxTime
          /\ nmea_object' = nmea_next(apply_pending(nmea_object, pending[1]),
                                      nmea_object.utc_date_time + dt, ok)
    /\ pending' = [pending EXCEPT ![1].heading_change = FALSE,
                                  ![1].speed_change = FALSE,
                                  ![1].altitude_change = FALSE]
    /\ lock' = [lock EXCEPT ![1] = TRUE]
    /\ pc' = [pc EXCEPT ![1] = "send"]
    /\ op' = "tick"
    /\ ticks' = Bump(ticks)
    /\ UNCHANGED <<start, presses>>
    /\ UNCHANGED <<threads, role, nmea_list, ctl, clock, advances, crowd, produced>>
    /\ UNCHANGED rest

\* run(): every send, write or data_log of the batch succeeds; the thread
\* sleeps and starts its next cycle.
SinkSend ==
    /\ process = "running"
    /\ pc[1] = "send"
    /\ lock' = [lock EXCEPT ![1] = FALSE]
    /\ pc' = [pc EXCEPT ![1] = "idle"]
    /\ UNCHANGED <<threads, pending, role, nmea_list, ctl, clock, advances, crowd, produced>>
    /\ UNCHANGED engine
    /\ UNCHANGED rest

\* run(): the transport raises (OSError, BrokenPipeError, SerialException,
\* an exception of data_log); the handler calls exit_script(), which
\* terminates the process: the thread, the control thread and the engine.
SinkFail ==
    /\ process = "running"
    /\ pc[1] = "send"
    /\ process' = "terminated"
    /\ lock' = [lock EXCEPT ![1] = FALSE]
    /\ pc' = [pc EXCEPT ![1] = "dead"]
    /\ threads' = <<>>
    /\ UNCHANGED <<pending, role, nmea_list, ctl, clock, advances, crowd, produced>>
    /\ UNCHANGED engine
    /\ UNCHANGED <<sink, call>>

NextSink ==
    \/ SinkAdvance
    \/ SinkSend
    \/ SinkFail
    \/ CtlPrompt
    \/ CtlSet

SpecSink == InitSink /\ [][NextSink]_vars

(***************************************************************************)
(* The cycle of the single sink with its pacing sleep: where the with      *)
(* block of run() ends relative to time.sleep(self.thread_sleep).          *)
(***************************************************************************)
\* The kinds whose run() calls time.sleep(self.thread_sleep) inside the
\* with self._lock block.
SleepsInWith == {"serial", "log"}

\* run(): the batch is sent and the pacing sleep begins; the with block has
\* ended by then in the stream threads and has not in the serial and the
\* logging thread.
SinkSent ==
    /\ process = "running"
    /\ pc[1] = "send"
    /\ lock' = [lock EXCEPT ![1] = (sink \in SleepsInWith)]
    /\ pc' = [pc EXCEPT ![1] = "sleep"]
    /\ UNCHANGED <<threads, pending, role, nmea_list, ctl, clock, advances, crowd, produced>>
    /\ UNCHANGED engine
    /\ UNCHANGED rest

\* run(): the pacing sleep ends, the with block is left where it was still
\* open, and the next cycle starts.
SinkWake ==
    /\ process = "running"
    /\ pc[1] = "sleep"
    /\ lock' = [lock EXCEPT ![1] = FALSE]
    /\ pc' = [pc EXCEPT ![1] = "idle"]
    /\ UNCHANGED <<threads, pending, role, nmea_list, ctl, clock, advances, crowd, produced>>
    /\ UNCHANGED engine
    /\ UNCHANGED rest

NextPace ==
    \/ SinkAdvance
    \/ SinkSent
    \/ SinkWake
    \/ CtlPrompt
    \/ CtlSet

SpecPace == InitSink /\ [][NextPace]_vars

(***************************************************************************)
(* The satellite sentences: GpgsvGroup, Gpgsv and Gpgsa.  A satellite ID   *)
(* is the number n of the string f'{n:02d}'; the empty field '' of a GSA   *)
(* sentence is 0.  random.sample and random.randint are free choices.      *)
(***************************************************************************)
population_size == 32
gsa_slots == 12

\* random.sample(population, k): k distinct elements in some order, here
\* the k elements from position `from` on, cyclically.  It raises
\* ValueError when k is larger than the population.
random_sample_raises(population, k) == k > Len(population)

random_sample(population, k, from) ==
    [i \in 1..k |-> population[((from + i - 1) % Len(population)) + 1]]

\* GpgsvGroup.sats_total setter
sats_total_setter(value) == IF value < 4 THEN 4 ELSE value

\* A group whose last sentence is as full as the others.
GpgsvGroup_full_last(sats_total_arg, from) ==
    LET total == sats_total_setter(sats_total_arg)
        num == ceil(total, sats_in_sentence)
        ids == [i \in 1..population_size |-> i]
    IN  IF random_sample_raises(ids, total)
        THEN [raised |-> "ValueError"]
        ELSE LET sats_ids == random_sample(ids, total, from)
             IN  [raised |-> "none",
                  sats_total |-> total,
                  num_of_gsv_in_group |-> num,
                  sats_ids |-> sats_ids,
                  gpgsv_instances |->
                     [n \in 1..num |->
                        [num_of_gsv_in_group |-> num,
                         sentence_num |-> n,
                         sats_total |-> total,
                         sats_in_sentence |-> sats_in_sentence,
                         sats_ids |-> SubSeq(sats_ids \o <<0, 0, 0>>,
                                             (n - 1) * sats_in_sentence + 1,
                                             n * sats_in_sentence)]]]

\* GpgsvGroup.__init__
GpgsvGroup(sats_total_arg, from) ==
    LET total == sats_total_setter(sats_total_arg)
        num == ceil(total, sats_in_sentence)
        ids == [i \in 1..population_size |-> i]
    IN  IF random_sample_raises(ids, total)
        THEN [raised |-> "ValueError"]
        ELSE LET sats_ids == random_sample(ids, total, from)
                 in_sentence(n) ==
                     IF n = num /\ total % sats_in_sentence # 0
                     THEN total % sats_in_sentence
                     ELSE sats_in_sentence
             IN  [raised |-> "none",
                  sats_total |-> total,
                  num_of_gsv_in_group |-> num,
                  sats_ids |-> sats_ids,
                  gpgsv_instances |->
                     [n \in 1..num |->
                        [num_of_gsv_in_group |-> num,
                         sentence_num |-> n,
                         sats_total |-> total,
                         sats_in_sentence |-> in_sentence(n),
                         sats_ids |-> SubSeq(sats_ids,
                                             (n - 1) * sats_in_sentence + 1,
                                             (n - 1) * sats_in_sentence + in_sentence(n))]]]

\* Gpgsa.__init__ (the sats_ids setter with k = random.randint(4, 12)) and
\* the twelve ID fields of Gpgsa.__str__.
Gpgsa(gpgsv_group, k, from) ==
    IF random_sample_raises(gpgsv_group.sats_ids, k)
    THEN [raised |-> "ValueError"]
    ELSE LET sats_ids == random_sample(gpgsv_group.sats_ids, k, from)
         IN  [raised |-> "none",
              sats_ids |-> sats_ids,
              sats_count |-> Len(sats_ids),
              sats_ids_output |->
                 sats_ids \o [i \in 1..(IF Len(sats_ids) < gsa_slots
                                         THEN gsa_slots - Len(sats_ids) ELSE 0) |-> 0]]

\* Everything but the call under test stands still at a constructed engine.
InitSats ==
    /\ nmea_object = nmea_init(ServerCase.position, ServerCase.altitude,
                              ServerCase.speed, ServerCase.heading, 0, TRUE)
    /\ op = "init"
    /\ ticks = 0
    /\ start = [heading |-> nmea_object.heading, target |-> nmea_object.heading_targeted]
    /\ presses = 0
    /\ NoThreads
    /\ NoSink
    /\ produced = {}

\* GpgsvGroup(sats_total=N)
NewGpgsvGroup ==
    /\ \E N \in 0..MaxSats, from \in 0..MaxStart :
          call' = [fn |-> "GpgsvGroup", sats_total |-> N,
                   out |-> GpgsvGroup(N, from)]
    /\ UNCHANGED <<sink, process>>
    /\ UNCHANGED engine
    /\ UNCHANGED workers

\* Gpgsa(gpgsv_group=GpgsvGroup(sats_total=N))
NewGpgsa ==
    /\ \E N \in 4..population_size, k \in 4..gsa_slots, from \in 0..MaxStart :
          call' = [fn |-> "Gpgsa", sats_total |-> N, k |-> k,
                   out |-> Gpgsa(GpgsvGroup(N, 0), k, from)]
    /\ UNCHANGED <<sink, process>>
    /\ UNCHANGED engine
    /\ UNCHANGED workers

NextSats ==
    \/ NewGpgsvGroup
    \/ NewGpgsa

SpecSats == InitSats /\ [][NextSats]_vars

(***************************************************************************)
(* Text.  A string is the sequence of the byte values of its characters    *)
(* (all ASCII here): '$' is 36, '*' 42, ',' 44, '0' 48, 'A' 65, CR 13 and  *)
(* LF 10.                                                                  *)
(***************************************************************************)
\* The body of test_checksum:
\* 'GPRMC,083840.000,A,5002.31537,N,00833.57615,E,0.000,90.0,060924,003.27,E,A'
test_data ==
    <<71, 80, 82, 77, 67, 44, 48, 56, 51, 56, 52, 48, 46, 48, 48, 48,
      44, 65, 44, 53, 48, 48, 50, 46, 51, 49, 53, 51, 55, 44, 78, 44,
      48, 48, 56, 51, 51, 46, 53, 55, 54, 49, 53, 44, 69, 44, 48, 46,
      48, 48, 48, 44, 57, 48, 46, 48, 44, 48, 54, 48, 57, 50, 52, 44,
      48, 48, 51, 46, 50, 55, 44, 69, 44, 65>>

\* Characters the bodies and payloads of the model are made of:
\* ' ', ',', '0', 'A', 'G' and '~'.
Alphabet == {32, 44, 48, 65, 71, 126}

\* All strings over the alphabet of at most n characters.
RECURSIVE Strings(_)
Strings(n) ==
    IF n = 0 THEN {<<>>}
    ELSE LET shorter == Strings(n - 1)
         IN  shorter \cup {Append(str, c) : str \in shorter, c \in Alphabet}

\* a ^ b on non-negative integers.
RECURSIVE xor(_, _)
xor(a, b) ==
    IF a = 0 /\ b = 0 THEN 0
    ELSE (((a % 2) + (b % 2)) % 2) + 2 * xor(a \div 2, b \div 2)

\* str(hex(n))[2:]: the lower-case hexadecimal digits of n, no leading zero.
RECURSIVE hex(_)
hex(n) ==
    LET digit(d) == IF d < 10 THEN 48 + d ELSE 87 + d
    IN  IF n < 16 THEN <<digit(n)>> ELSE Append(hex(n \div 16), digit(n % 16))

\* str.upper()
upper(str) ==
    [i \in 1..Len(str) |-> IF str[i] >= 97 /\ str[i] <= 122 THEN str[i] - 32 ELSE str[i]]

\* The loop of NmeaMsg.check_sum: the running XOR after each character.
check_sum_loop(data) ==
    LET sum[i \in 0..Len(data)] ==
            IF i = 0 THEN 0 ELSE xor(sum[i - 1], data[i])
    IN  sum[Len(data)]

\* A checksum without the leading zero.
check_sum_return_unpadded(sum) ==
    upper(hex(sum))

\* The return of NmeaMsg.check_sum: the hex digits without 0x, upper case,
\* with a leading 0 when there is one digit only.
check_sum_return(sum) ==
    LET hex_str == hex(sum)
    IN  IF Len(hex_str) = 2 THEN upper(hex_str) ELSE upper(<<48>> \o hex_str)

\* NmeaMsg.check_sum
check_sum(data) == check_sum_return(check_sum_loop(data))

\* The sentence kinds and their class attribute sentence_id.
SentenceKinds == {"GGA", "GLL", "RMC", "GSA", "GSV", "HDT", "VTG", "ZDA"}

sentence_id(kind) ==
    <<71, 80>> \o
    (CASE kind = "GGA" -> <<71, 71, 65>>
       [] kind = "GLL" -> <<71, 76, 76>>
       [] kind = "RMC" -> <<82, 77, 67>>
       [] kind = "GSA" -> <<71, 83, 65>>
       [] kind = "GSV" -> <<71, 83, 86>>
       [] kind = "HDT" -> <<72, 68, 84>>
       [] kind = "VTG" -> <<86, 84, 71>>
       [] kind = "ZDA" -> <<90, 68, 65>>)

\* __str__ of a renderer, nmea_output: the sentence ID, a comma and the
\* formatted fields (`payload`: whatever text the renderer's state gives).
nmea_output(kind, payload) == sentence_id(kind) \o <<44>> \o payload

\* A sentence whose checksum covers the fields but not the sentence ID.
sentence_str_payload_sum(kind, payload) ==
    <<36>> \o nmea_output(kind, payload) \o <<42>>
           \o check_sum(payload) \o <<13, 10>>

\* __str__ of a renderer: f'${nmea_output}*{NmeaMsg.check_sum(nmea_output)}\r\n'
sentence_str(kind, payload) ==
    <<36>> \o nmea_output(kind, payload) \o <<42>>
           \o check_sum(nmea_output(kind, payload)) \o <<13, 10>>

\* The fields of test_gphdt_str, '90.0,T'.
test_payload == <<57, 48, 46, 48, 44, 84>>

InitText ==
    /\ InitSats

\* The bodies and payloads the functions are called with.
Bodies == Strings(MaxLen)

\* NmeaMsg.check_sum(data) is entered, on a short body or on the body of
\* test_checksum: check_sum = 0 and no character read yet.
CallCheckSum ==
    /\ call.fn = "none"
    /\ \E data \in Bodies \cup {test_data} :
          call' = [fn |-> "check_sum", data |-> data, pos |-> 0, check_sum |-> 0,
                   done |-> FALSE, out |-> <<>>]
    /\ UNCHANGED <<sink, process>>
    /\ UNCHANGED engine
    /\ UNCHANGED workers

\* One pass of the loop of NmeaMsg.check_sum: check_sum = (check_sum ^ num).
CheckSumLoop ==
    /\ call.fn = "check_sum"
    /\ ~call.done
    /\ call.pos < Len(call.data)
    /\ call' = [call EXCEPT !.pos = @ + 1,
                            !.check_sum = xor(@, call.data[call.pos + 1])]
    /\ UNCHANGED <<sink, process>>
    /\ UNCHANGED engine
    /\ UNCHANGED workers

\* NmeaMsg.check_sum returns once the loop is over.
CheckSumReturn ==
    /\ call.fn = "check_sum"
    /\ ~call.done
    /\ call.pos = Len(call.data)
    /\ call' = [call EXCEPT !.done = TRUE, !.out = check_sum_return(call.check_sum)]
    /\ UNCHANGED <<sink, process>>
    /\ UNCHANGED engine
    /\ UNCHANGED workers

\* str(renderer), called once on short fields or on the fields of
\* test_gphdt_str.
CallStr ==
    /\ call.fn = "none"
    /\ \E kind \in SentenceKinds, short \in Bodies, long \in BOOLEAN :
          LET payload == IF long THEN test_payload ELSE short
          IN  call' = [fn |-> "str", kind |-> kind, payload |-> payload,
                       out |-> sentence_str(kind, payload)]
    /\ UNCHANGED <<sink, process>>
    /\ UNCHANGED engine
    /\ UNCHANGED workers

NextText ==
    \/ CallCheckSum
    \/ CheckSumLoop
    \/ CheckSumReturn
    \/ CallStr

SpecText == InitText /\ [][NextText]_vars

(***************************************************************************)
(* nmea_utils: decimal degrees to and from the NMEA (d)ddmm.mmmmm form.    *)
(* A decimal-degree value is a record [neg, deg, frac]: the sign, the      *)
(* whole degrees and the fraction in 1e-9 degrees.  Minutes are counted in *)
(* 1e-5 minutes, the last decimal the formatter prints.                    *)
(***************************************************************************)
Giga == 1000000000

\* Whole degrees the functions are called with.
CoordDegrees == {0, 9, 53, 89, 90, 99, 179, 180}

\* Fractions of a degree: none, a decimal tie of the minutes' fifth decimal,
\* a half, and the last steps below the next whole degree.
CoordFractions ==
    {0, 250, 500000000} \cup {Giga - 50 * k : k \in 1..MaxBelow}

\* The valid range: latitudes up to 90 degrees, longitudes up to 180.
CoordLimit(att) == IF att = "lat" THEN 90 ELSE 180

CoordInputs(att) ==
    {x \in [neg : BOOLEAN, deg : CoordDegrees, frac : CoordFractions] :
        /\ x.deg < CoordLimit(att) \/ (x.deg = CoordLimit(att) /\ x.frac = 0)
        /\ x.neg => (x.deg > 0 \/ x.frac > 0)}

\* The decimal digits of a natural number.
RECURSIVE str_int(_)
str_int(n) ==
    IF n < 10 THEN <<48 + n>> ELSE Append(str_int(n \div 10), 48 + (n % 10))

\* str.zfill(width)
zfill(str, width) ==
    IF Len(str) >= width THEN str
    ELSE [i \in 1..(width - Len(str)) |-> 48] \o str

\* f"{value:.5f}" of a value given in 1e-5.
format_5f(value) ==
    str_int(value \div 100000) \o <<46>> \o zfill(str_int(value % 100000), 5)

\* abs(degrees)
abs_degrees(degrees) == [degrees EXCEPT !.neg = FALSE]

\* The minutes of divmod(degrees * 60, 60), rounded to the fifth decimal as
\* the format does.  frac * 60 minutes is frac * 6 / 1000 in 1e-5 minutes;
\* the binary value of a decimal tie lies on either side of it (half_up).
minutes_5f(degrees, half_up) ==
    LET hi == degrees.frac \div 1000
        lo == (degrees.frac % 1000) * 6
    IN  hi * 6 + (IF lo % 1000 = 500
                  THEN (lo \div 1000) + (IF half_up THEN 1 ELSE 0)
                  ELSE (lo + 500) \div 1000)

\* A formatter that carries sixty minutes into the next degree.
ddd2nmeall_rollover(degrees, att, half_up) ==
    LET whole == abs_degrees(degrees).deg
        minutes == minutes_5f(abs_degrees(degrees), half_up)
        carried == IF minutes = 6000000 THEN (whole + 1) * 100 * 100000
                   ELSE whole * 100 * 100000 + minutes
        dmm == format_5f(carried)
    IN  IF att = "lat" THEN zfill(dmm, 10) ELSE zfill(dmm, 11)

\* ddd2nmeall(degrees, att), hprec = False
ddd2nmeall(degrees, att, half_up) ==
    LET whole == abs_degrees(degrees).deg
        minutes == minutes_5f(abs_degrees(degrees), half_up)
        dmm == format_5f(whole * 100 * 100000 + minutes)
    IN  IF att = "lat" THEN zfill(dmm, 10) ELSE zfill(dmm, 11)

\* pos.find("."): the index of the first '.', from 0, or -1.
find_point(pos) ==
    IF \E i \in 1..Len(pos) : pos[i] = 46
    THEN (CHOOSE i \in 1..Len(pos) :
             pos[i] = 46 /\ \A j \in 1..(i - 1) : pos[j] # 46) - 1
    ELSE -1

\* int() of a string of digits.
RECURSIVE int_str(_)
int_str(str) ==
    IF str = <<>> THEN 0
    ELSE 10 * int_str(SubSeq(str, 1, Len(str) - 1)) + (str[Len(str)] - 48)

IsDigits(str) == \A i \in 1..Len(str) : str[i] >= 48 /\ str[i] <= 57

\* float(pos[dpt - 2:]) in 1e-5 minutes, for up to five decimals.
float_minutes(str) ==
    LET decimals == SubSeq(str, 4, Len(str))
    IN  int_str(SubSeq(str, 1, 2)) * 100000
        + int_str(decimals) * 10 ^ (5 - Len(decimals))

\* posdeg + posmin / 60 rounded to ten decimals: posmin / 60 degrees is
\* posmin * 5000 / 3 in 1e-10 degrees: frac in 1e-9 and the tenth decimal.
round_10(posdeg, posmin) ==
    LET a == posmin \div 3
        b == posmin % 3
        frac == 500 * a + (IF b = 0 THEN 0 ELSE IF b = 1 THEN 166 ELSE 333)
        tenth == IF b = 0 THEN 0 ELSE IF b = 1 THEN 7 ELSE 3
    IN  [none |-> FALSE, deg |-> posdeg + (frac \div Giga),
         frac |-> frac % Giga, tenth |-> tenth]

None == [none |-> TRUE, deg |-> 0, frac |-> 0, tenth |-> 0]

\* A parser that takes the minutes for hundredths of a degree.
nmeall2ddd_hundredths(pos) ==
    LET dpt == find_point(pos)
    IN  IF dpt < 4 THEN None
        ELSE LET deg_str == SubSeq(pos, 1, dpt - 2)
                 min_str == SubSeq(pos, dpt - 1, Len(pos))
             IN  IF /\ IsDigits(deg_str)
                    /\ IsDigits(SubSeq(min_str, 1, 2))
                    /\ IsDigits(SubSeq(min_str, 4, Len(min_str)))
                    /\ Len(min_str) <= 8
                 THEN [none |-> FALSE, deg |-> int_str(deg_str),
                       frac |-> float_minutes(min_str) * 100, tenth |-> 0]
                 ELSE None

\* nmeall2ddd(pos): None for a string without two minute digits and two
\* more characters ahead of the point, or with anything but digits.
nmeall2ddd(pos) ==
    LET dpt == find_point(pos)
    IN  IF dpt < 4 THEN None
        ELSE LET deg_str == SubSeq(pos, 1, dpt - 2)
                 min_str == SubSeq(pos, dpt - 1, Len(pos))
             IN  IF /\ IsDigits(deg_str)
                    /\ IsDigits(SubSeq(min_str, 1, 2))
                    /\ IsDigits(SubSeq(min_str, 4, Len(min_str)))
                    /\ Len(min_str) <= 8
                 THEN round_10(int_str(deg_str), float_minutes(min_str))
                 ELSE None

\* The strings nmeall2ddd is called with on its own: lat_nmea of the test
\* position, '5002.31537', and '12.5'.
ParseInputs == {<<53, 48, 48, 50, 46, 51, 49, 53, 51, 55>>, <<49, 50, 46, 53>>}

InitCoord ==
    /\ InitSats

\* ddd2nmeall(degrees, att)
CallDdd2nmeall ==
    /\ call.fn = "none"
    /\ \E att \in {"lat", "lng"}, half_up \in BOOLEAN :
          \E degrees \in CoordInputs(att) :
             call' = [fn |-> "ddd2nmeall", degrees |-> degrees, att |-> att,
                      out |-> ddd2nmeall(degrees, att, half_up)]
    /\ UNCHANGED <<sink, process>>
    /\ UNCHANGED engine
    /\ UNCHANGED workers

\* nmeall2ddd(pos) on the string ddd2nmeall has returned.
CallNmeall2dddBack ==
    /\ call.fn = "ddd2nmeall"
    /\ call' = [fn |-> "nmeall2ddd", pos |-> call.out, back |-> TRUE,
                degrees |-> call.degrees, att |-> call.att,
                out |-> nmeall2ddd(call.out)]
    /\ UNCHANGED <<sink, process>>
    /\ UNCHANGED engine
    /\ UNCHANGED workers

\* nmeall2ddd(pos) on a string of its own.
CallNmeall2ddd ==
    /\ call.fn = "none"
    /\ \E pos \in ParseInputs :
          call' = [fn |-> "nmeall2ddd", pos |-> pos, back |-> FALSE,
                   degrees |-> [neg |-> FALSE, deg |-> 0, frac |-> 0],
                   att |-> "lat", out |-> nmeall2ddd(pos)]
    /\ UNCHANGED <<sink, process>>
    /\ UNCHANGED engine
    /\ UNCHANGED workers

NextCoord ==
    \/ CallDdd2nmeall
    \/ CallNmeall2dddBack
    \/ CallNmeall2ddd

SpecCoord == InitCoord /\ [][NextCoord]_vars

(***************************************************************************)
(* Gpgga: the fix-data sentence.                                           *)
(***************************************************************************)
\* str() of a non-negative float given in ten-thousandths: the decimals
\* without trailing zeros, one decimal at least.
RECURSIVE rstrip_zeros(_)
rstrip_zeros(str) ==
    IF Len(str) > 1 /\ str[Len(str)] = 48
    THEN rstrip_zeros(SubSeq(str, 1, Len(str) - 1))
    ELSE str

float_str(value) ==
    str_int(value \div 10000) \o <<46>> \o rstrip_zeros(zfill(str_int(value % 10000), 4))

\* ",".join(fields)
RECURSIVE join(_)
join(fields) ==
    IF Len(fields) = 0 THEN <<>>
    ELSE IF Len(fields) = 1 THEN fields[1]
    ELSE join(SubSeq(fields, 1, Len(fields) - 1)) \o <<44>> \o fields[Len(fields)]

\* The arguments of test_gpgga_str and the defaults of Gpgga.__init__:
\* time '083840', position '5002.31537' N '00833.57615' E, altitude 15.2,
\* antenna altitude 32.5, fix quality 1, hdop '0.92', no DGPS data.
test_gpgga ==
    [utc_time |-> <<48, 56, 51, 56, 52, 48>>,
     position |-> [lat_nmea |-> <<53, 48, 48, 50, 46, 51, 49, 53, 51, 55>>, lat_dir |-> <<78>>,
                   lng_nmea |-> <<48, 48, 56, 51, 51, 46, 53, 55, 54, 49, 53>>, lng_dir |-> <<69>>],
     fix_quality |-> 1, sats_count |-> 12, hdop |-> <<48, 46, 57, 50>>,
     altitude |-> 152000, antenna_altitude_above_msl |-> 325000,
     dgps_last_update |-> <<>>, dgps_ref_station_id |-> <<>>]

\* A fix-data body with the count printed as it is.
Gpgga_nmea_output_unpadded(gpgga) ==
    join(<<sentence_id("GGA"), gpgga.utc_time \o <<46, 48, 48>>,
           gpgga.position.lat_nmea, gpgga.position.lat_dir,
           gpgga.position.lng_nmea, gpgga.position.lng_dir,
           str_int(gpgga.fix_quality), str_int(gpgga.sats_count),
           gpgga.hdop, float_str(gpgga.altitude), <<77>>,
           float_str(gpgga.antenna_altitude_above_msl), <<77>>,
           gpgga.dgps_last_update, gpgga.dgps_ref_station_id>>)

\* nmea_output of Gpgga.__str__; sats_count goes through :02d.
Gpgga_nmea_output(gpgga) ==
    join(<<sentence_id("GGA"), gpgga.utc_time \o <<46, 48, 48>>,
           gpgga.position.lat_nmea, gpgga.position.lat_dir,
           gpgga.position.lng_nmea, gpgga.position.lng_dir,
           str_int(gpgga.fix_quality), zfill(str_int(gpgga.sats_count), 2),
           gpgga.hdop, float_str(gpgga.altitude), <<77>>,
           float_str(gpgga.antenna_altitude_above_msl), <<77>>,
           gpgga.dgps_last_update, gpgga.dgps_ref_station_id>>)

InitGga ==
    /\ InitSats

\* Gpgga(sats_count=..., ...) as in test_gpgga_str, and str() of it.
NewGpgga ==
    /\ \E sats_count \in 0..MaxCount :
          LET gpgga == [test_gpgga EXCEPT !.sats_count = sats_count]
          IN  call' = [fn |-> "Gpgga", by |-> "test", sats_count |-> sats_count,
                       out |-> Gpgga_nmea_output(gpgga)]
    /\ UNCHANGED <<sink, process>>
    /\ UNCHANGED engine
    /\ UNCHANGED workers

\* Gpgga(sats_count=self.gpgsa.sats_count, ..., altitude=altitude_init,
\* antenna_altitude_above_msl=altitude_init+2.5) in NmeaMsg.__init__, and
\* str() of it.
NewNmeaMsgGpgga ==
    /\ \E k \in 4..gsa_slots, from \in 0..MaxStart :
          LET gpgsa == Gpgsa(GpgsvGroup(sats_total_default, 0), k, from)
              gpgga == [test_gpgga EXCEPT
                           !.sats_count = gpgsa.sats_count,
                           !.altitude = nmea_object.altitude,
                           !.antenna_altitude_above_msl = nmea_object.altitude + 25000]
          IN  call' = [fn |-> "Gpgga", by |-> "NmeaMsg", sats_count |-> k,
                       out |-> Gpgga_nmea_output(gpgga)]
    /\ UNCHANGED <<sink, process>>
    /\ UNCHANGED engine
    /\ UNCHANGED workers

NextGga ==
    \/ NewGpgga
    \/ NewNmeaMsgGpgga

SpecGga == InitGga /\ [][NextGga]_vars

(***************************************************************************)
(* The engine in full: NmeaMsg with its satellite sentences, the satellite *)
(* count of GGA, the zone offset of ZDA and the backup of the start        *)
(* position, advanced by ticks and rendered.                               *)
(***************************************************************************)
\* TimezoneFinder().timezone_at(lng, lat) and the standard offset of the zone
\* it names: no zone, UTC+1, UTC-3:30 (floor division gives -4 h and 30 min)
\* and UTC+12:45.
ZoneCases ==
    { [found |-> FALSE, hours |-> 0, minutes |-> 0],
      [found |-> TRUE, hours |-> 1, minutes |-> 0],
      [found |-> TRUE, hours |-> -4, minutes |-> 30],
      [found |-> TRUE, hours |-> 12, minutes |-> 45] }

\* NmeaMsg.get_timezone_offset: (None, None) when timezone_at finds no zone.
get_timezone_offset(zone) ==
    IF ~zone.found
    THEN [offset_hrs |-> [none |-> TRUE, int |-> 0],
          offset_min |-> [none |-> TRUE, int |-> 0]]
    ELSE [offset_hrs |-> [none |-> FALSE, int |-> zone.hours],
          offset_min |-> [none |-> FALSE, int |-> zone.minutes]]

\* A constructor that hands GGA the number of satellites in view.
NmeaMsg_sats_in_view(c, lookup_ok, k, seed, zone) ==
    LET e == nmea_init(c.position, c.altitude, c.speed, c.heading, 0, lookup_ok)
        group == GpgsvGroup(sats_total_default, seed)
        details(ids) ==
            [i \in 1..Len(ids) |->
                [elevation |-> (7 * ids[i] + seed) % 91,
                 azimuth |-> (37 * ids[i] + seed) % 360,
                 snr |-> (11 * ids[i] + seed) % 100]]
        instances ==
            [n \in 1..Len(group.gpgsv_instances) |->
                [sats_details |-> details(group.gpgsv_instances[n].sats_ids)]
                    @@ group.gpgsv_instances[n]]
        gpgsa == Gpgsa(group, k, seed)
    IN  [gpgsv_group |-> [group EXCEPT !.gpgsv_instances = instances],
         gpgsa |-> gpgsa,
         gpgga |-> [sats_count |-> group.sats_total] @@ e.gpgga,
         gpzda |-> get_timezone_offset(zone) @@ e.gpzda] @@ e

\* NmeaMsg.__init__ in full: the engine of nmea_init with the GSV group of
\* 15 satellites (elevation, azimuth and SNR of each drawn once, by seed),
\* the GSA selection of k of them, the GGA count taken from GSA and the ZDA
\* offsets taken from get_timezone_offset.
NmeaMsg(c, lookup_ok, k, seed, zone) ==
    LET e == nmea_init(c.position, c.altitude, c.speed, c.heading, 0, lookup_ok)
        group == GpgsvGroup(sats_total_default, seed)
        details(ids) ==
            [i \in 1..Len(ids) |->
                [elevation |-> (7 * ids[i] + seed) % 91,
                 azimuth |-> (37 * ids[i] + seed) % 360,
                 snr |-> (11 * ids[i] + seed) % 100]]
        instances ==
            [n \in 1..Len(group.gpgsv_instances) |->
                [sats_details |-> details(group.gpgsv_instances[n].sats_ids)]
                    @@ group.gpgsv_instances[n]]
        gpgsa == Gpgsa(group, k, seed)
    IN  [gpgsv_group |-> [group EXCEPT !.gpgsv_instances = instances],
         gpgsa |-> gpgsa,
         gpgga |-> [sats_count |-> gpgsa.sats_count] @@ e.gpgga,
         gpzda |-> get_timezone_offset(zone) @@ e.gpzda] @@ e

\* self.position_backup: the dictionary position_init, which is the very
\* object self.position names (and Application.backup_nav_data_dict too).
position_backup(e) == e.position

\* Gpzda.__str__: the two offset fields, f'{offset_hrs:+03}' and
\* f'{offset_min:02}'; format() of None raises TypeError.
Gpzda_nmea_output(gpzda) ==
    IF gpzda.offset_hrs.none \/ gpzda.offset_min.none
    THEN [raised |-> "TypeError"]
    ELSE [raised |-> "none",
          offset_hrs |-> (IF gpzda.offset_hrs.int < 0 THEN <<45>> ELSE <<43>>)
                             \o zfill(str_int(Abs(gpzda.offset_hrs.int)), 2),
          offset_min |-> zfill(str_int(gpzda.offset_min.int), 2)]

InitWhole ==
    /\ \E c \in InitCases, lookup_ok \in BOOLEAN, k \in {4, gsa_slots},
          seed \in 0..MaxStart, zone \in ZoneCases :
          nmea_object = NmeaMsg(c, lookup_ok, k, seed, zone)
    /\ op = "init"
    /\ ticks = 0
    /\ start = [heading |-> nmea_object.heading, target |-> nmea_object.heading_targeted]
    /\ presses = 0
    /\ NoThreads
    /\ NoSink
    /\ produced = {}

\* [f'{_}' for _ in ...]: str() of the ZDA sentence of the batch.
RenderGpzda ==
    /\ call' = [fn |-> "Gpzda", out |-> Gpzda_nmea_output(nmea_object.gpzda)]
    /\ call' # call
    /\ UNCHANGED <<sink, process>>
    /\ UNCHANGED engine
    /\ UNCHANGED workers

NextWhole ==
    \/ Tick
    \/ RenderGpzda

SpecWhole == InitWhole /\ [][NextWhole]_vars

(***************************************************************************)
(* NmeaMsg._heading_update on its own: one heading reconciliation of an    *)
(* engine whose heading and heading target have one decimal at most.       *)
(***************************************************************************)
\* Headings and heading targets in [0, 360): around 0, 180 and 360, at the
\* distances 0.5, 1, 2, 3 and 4 degrees from the wrap.
HeadingInputs ==
    {0, 50, 100, 200, 300, 400, 9000, 17900, 18000, 18100,
     35600, 35700, 35800, 35900, 35950}

InitHeading ==
    /\ InitSats

\* The heading reconciliation of one tick: _heading_update() when the
\* heading differs from the target.
CallHeadingUpdate ==
    /\ \E heading \in HeadingInputs, heading_targeted \in HeadingInputs :
          LET e == [nmea_object EXCEPT !.heading = heading,
                                       !.heading_targeted = heading_targeted]
          IN  call' = [fn |-> "_heading_update", heading |-> heading,
                       heading_targeted |-> heading_targeted,
                       out |-> reconcile_heading(e).heading]
    /\ UNCHANGED <<sink, process>>
    /\ UNCHANGED engine
    /\ UNCHANGED workers

NextHeading ==
    \/ CallHeadingUpdate

SpecHeading == InitHeading /\ [][NextHeading]_vars

(***************************************************************************)
(* Properties of the engine.                                               *)
(***************************************************************************)
AllAtTarget(e) ==
    /\ e.heading = e.heading_targeted
    /\ e.speed = e.speed_targeted
    /\ e.altitude = e.altitude_targeted

\* A step of Spec that is a tick: only a tick moves the engine's timestamp.
Ticked == nmea_object'.utc_date_time # nmea_object.utc_date_time

\* C1: after every tick the current heading lies in [0, 360), whatever the
\* initial heading in [0, 360) and the heading target.
C1_HeadingInRange ==
    nmea_object.heading >= 0 /\ nmea_object.heading < 36000

\* C2: when current and target heading differ by more than 3 degrees, a tick
\* moves the current heading by exactly 3 degrees (modulo 360) along the
\* shorter arc to the target: clockwise when the target lies less than 180
\* degrees clockwise, counter-clockwise when it lies more than 180 degrees
\* clockwise, either way at exactly 180.
C2_ShorterArcStep ==
    [][ (Ticked /\ Abs(nmea_object.heading_targeted - nmea_object.heading) > 300) =>
        LET c == nmea_object.heading
            cw == (nmea_object.heading_targeted - c) % 36000
            up == (c + 300) % 36000
            down == (c - 300) % 36000
        IN  /\ cw < 18000 => nmea_object'.heading = up
            /\ cw > 18000 => nmea_object'.heading = down
            /\ cw = 18000 => nmea_object'.heading \in {up, down} ]_vars

\* C3: from heading 350 with target 10 and no further target write, the
\* ticks give 353, 356, 359, 2, 5, 8 and the heading first equals 10 on the
\* 7th tick, where it stays.
C3_WrapPath ==
    (start.heading = 35000 /\ start.target = 1000) =>
        /\ nmea_object.heading_targeted = 1000
        /\ ticks = 0 => nmea_object.heading = 35000
        /\ ticks = 1 => nmea_object.heading = 35300
        /\ ticks = 2 => nmea_object.heading = 35600
        /\ ticks = 3 => nmea_object.heading = 35900
        /\ ticks = 4 => nmea_object.heading = 200
        /\ ticks = 5 => nmea_object.heading = 500
        /\ ticks = 6 => nmea_object.heading = 800
        /\ ticks >= 7 => nmea_object.heading = 1000

C3_Witness ==
    /\ start.heading = 35000 /\ start.target = 1000
    /\ op = "tick" /\ ticks = 7
    /\ nmea_object.heading = 1000

\* C4: a tick that starts with heading, speed and altitude at their targets
\* leaves the three and their targets unchanged; the timestamp moves, and
\* the position moves only if the speed is above zero.
C4_IdempotentAtTarget ==
    [][ (Ticked /\ AllAtTarget(nmea_object)) =>
        /\ nmea_object'.heading = nmea_object.heading
        /\ nmea_object'.speed = nmea_object.speed
        /\ nmea_object'.altitude = nmea_object.altitude
        /\ AllAtTarget(nmea_object')
        /\ (nmea_object.speed <= 0 =>
               /\ nmea_object'.position.lat = nmea_object.position.lat
               /\ nmea_object'.position.lng = nmea_object.position.lng) ]_vars

C4_Witness ==
    /\ op = "tick" /\ presses = 0 /\ ticks >= 2
    /\ AllAtTarget(nmea_object)
    /\ nmea_object.speed > 0
    /\ nmea_object.position.lat # 0

\* C5: a tick that starts with the current speed at 0 leaves latitude and
\* longitude unchanged, whatever the elapsed time and whatever heading,
\* speed or altitude change is in progress.
C5_StationaryAtZeroSpeed ==
    [][ (Ticked /\ nmea_object.speed = 0) =>
        /\ nmea_object'.position.lat = nmea_object.position.lat
        /\ nmea_object'.position.lng = nmea_object.position.lng ]_vars

C5_Witness ==
    /\ op = "tick" /\ ticks >= 1
    /\ nmea_object.speed = 0 /\ nmea_object.speed_targeted = 0
    /\ nmea_object.heading # nmea_object.heading_targeted
    /\ nmea_object.altitude # nmea_object.altitude_targeted
    /\ nmea_object.position.lat = 0 /\ nmea_object.position.lng = 0

\* C6: the progress flag goes from true to false only in a tick at whose end
\* heading, speed and altitude all equal their targets, and it is false at
\* the end of every such tick.
C6_FlagClearedOnArrival ==
    [][ /\ (nmea_object.change_in_progress /\ ~nmea_object'.change_in_progress)
              => (Ticked /\ AllAtTarget(nmea_object'))
        /\ (Ticked /\ AllAtTarget(nmea_object'))
              => ~nmea_object'.change_in_progress ]_vars

C6_Witness ==
    /\ start.heading = 35900 /\ start.target = 1000
    /\ op = "tick" /\ ticks = 4
    /\ AllAtTarget(nmea_object)
    /\ ~nmea_object.change_in_progress

\* C7: in every reachable state, also between a target write and the next
\* tick, the progress flag is true exactly when a current value differs
\* from its target.
C7_FlagIffDiffers ==
    nmea_object.change_in_progress <=> ~AllAtTarget(nmea_object)

(***************************************************************************)
(* Properties of the TCP server workers.                                   *)
(***************************************************************************)
\* C8: access to the shared engine is mutually exclusive: no two workers are
\* at the same time in the middle of an advance or of a render of the
\* sentence list, and while a worker is in the middle of either, no other
\* thread (worker, prompt or GUI) writes a target or advances the engine.
C8_MutualExclusion ==
    [][ /\ \A v, w \in Workers :
              (/\ pc'[v] \in {"messages", "messages2", "render2"}
               /\ pc'[w] \in {"messages", "messages2", "render2"}) => v = w
        /\ \A w \in Workers :
              (pc[w] \in {"messages", "messages2", "render2"} /\ pc'[w] = pc[w])
                  => nmea_object' = nmea_object ]_vars

\* C9: while two or more workers are alive, the engine is advanced at most
\* once per cadence interval, and only by the first worker of the thread
\* list, also when workers join or leave during the interval.
C9_SingleAdvancer ==
    [][ \A w \in Workers :
          (pc[w] = "advance" /\ pc'[w] = "messages" /\ Len(threads) >= 2) =>
              /\ w = threads[1]
              /\ advances = 0 ]_vars

\* C10: the batch a non-advancing worker is about to send equals the batch
\* of one single tick of the advancer (or the batch of construction): its
\* sentences never come from two different ticks.
C10_BatchOfOneTick ==
    \A w \in Workers :
        (pc[w] = "send" /\ role[w] = "reader") =>
            <<nmea_list[w][1], nmea_list[w][2]>> \in produced

(***************************************************************************)
(* Properties of the sink workers' failures.                               *)
(***************************************************************************)
\* C11: a transport failure of a sink worker, of whatever kind, terminates
\* only that worker: the other workers stand where they stood, the process
\* (and with it the control thread) keeps running and the engine is as it
\* was.
C11_FailureStaysLocal ==
    [][ \A w \in Workers :
          (pc[w] = "send" /\ pc'[w] = "dead") =>
              /\ process' = "running"
              /\ \A v \in Workers : v # w => pc'[v] = pc[v]
              /\ nmea_object' = nmea_object ]_vars

(***************************************************************************)
(* Properties of the magnetic variation and of the sentence list.          *)
(***************************************************************************)
\* C12: when the variation lookup fails, in the constructor or in a tick,
\* the variation the engine then reports in the RMC sentence (magnitude and
\* direction together) is exactly the one known before, or zero.
C12_VariationFallback ==
    /\ (\E c \in InitCases :
            nmea_object = nmea_init(c.position, c.altitude, c.speed, c.heading,
                                    0, FALSE))
           => \/ nmea_object.gprmc.magnetic_var_value = 0
              \/ /\ nmea_object.gprmc.magnetic_var_value = 210
                 /\ nmea_object.gprmc.magnetic_var_direct = "E"
    /\ [][ (/\ Ticked
            /\ nmea_object.speed > 0
            /\ nmea_object' = nmea_next(nmea_object, nmea_object'.utc_date_time, FALSE))
           => \/ nmea_object'.gprmc.magnetic_var_value = 0
              \/ /\ nmea_object'.gprmc.magnetic_var_value
                        = nmea_object.gprmc.magnetic_var_value
                 /\ nmea_object'.gprmc.magnetic_var_direct
                        = nmea_object.gprmc.magnetic_var_direct ]_vars

(***************************************************************************)
(* Properties of the satellite sentences.                                  *)
(***************************************************************************)
\* C14: for any satellite set of size N >= 4, constructing the GSA sentence
\* succeeds, it selects k IDs with 4 <= k <= 12 and k <= N, and the sentence
\* carries exactly 12 ID fields: the k IDs, then 12 - k empty fields.
C14_GsaSelection ==
    (call.fn = "Gpgsa" /\ call.sats_total >= 4) =>
        /\ call.out.raised = "none"
        /\ call.out.sats_count >= 4
        /\ call.out.sats_count <= 12
        /\ call.out.sats_count <= call.sats_total
        /\ Len(call.out.sats_ids_output) = 12
        /\ \A i \in 1..12 :
              IF i <= call.out.sats_count
              THEN call.out.sats_ids_output[i] = call.out.sats_ids[i]
              ELSE call.out.sats_ids_output[i] = 0

\* The per-sentence satellite counts of a group, added up.
RECURSIVE SumInSentence(_)
SumInSentence(instances) ==
    IF instances = <<>> THEN 0
    ELSE Head(instances).sats_in_sentence + SumInSentence(Tail(instances))

\* The group built for a requested total is well formed: ceil(N/4) sentences
\* numbered in order, each with the group's sentence count and total N, at
\* most 4 satellites each (4 in all but possibly the last), the counts
\* adding up to N and no ID repeated.
GroupWellFormed ==
    LET N == IF call.sats_total < 4 THEN 4 ELSE call.sats_total
        g == call.out
        num == (N + 3) \div 4
    IN  /\ g.raised = "none"
        /\ Len(g.gpgsv_instances) = num
        /\ \A n \in 1..Len(g.gpgsv_instances) :
              LET v == g.gpgsv_instances[n]
              IN  /\ v.sentence_num = n
                  /\ v.num_of_gsv_in_group = num
                  /\ v.sats_total = N
                  /\ v.sats_in_sentence <= 4
                  /\ (n < num => v.sats_in_sentence = 4)
                  /\ Len(v.sats_ids) = v.sats_in_sentence
                  /\ \A i \in 1..Len(v.sats_ids) : v.sats_ids[i] \in 1..32
        /\ SumInSentence(g.gpgsv_instances) = N
        /\ Cardinality(UNION {{g.gpgsv_instances[n].sats_ids[i] :
                                  i \in 1..Len(g.gpgsv_instances[n].sats_ids)} :
                               n \in 1..Len(g.gpgsv_instances)}) = N

\* C15: for any requested satellite total N (below 4 counts as 4) the GSV
\* group is well formed.
C15_GsvGroupAnyTotal ==
    call.fn = "GpgsvGroup" => GroupWellFormed

\* C15 amended: for any requested satellite total N up to 32, the number of
\* satellite IDs there are (below 4 counts as 4), the GSV group is well
\* formed.
C15_GsvGroupUpTo32 ==
    (call.fn = "GpgsvGroup" /\ call.sats_total <= 32) => GroupWellFormed

C15_Witness ==
    /\ call.fn = "GpgsvGroup"
    /\ call.sats_total = 15
    /\ call.out.raised = "none"
    /\ Len(call.out.gpgsv_instances) = 4
    /\ call.out.gpgsv_instances[4].sats_in_sentence = 3

(***************************************************************************)
(* Properties of the batch.                                                *)
(***************************************************************************)
\* C13: the list every advance returns has the same fixed order: GGA, GSA,
\* the GSV sentences in index order, GLL, RMC, HDT, VTG, ZDA; its order and
\* its length (11, with the four GSV sentences of 15 satellites) never
\* change after construction.
C13_SentenceOrder ==
    LET L == nmea_object.nmea_sentences
        k == Len(L) - 7
    IN  /\ Len(L) = 11
        /\ L[1].id = "GPGGA"
        /\ L[2].id = "GPGSA"
        /\ \A n \in 1..k : L[2 + n].id = "GPGSV" /\ L[2 + n].num = n
        /\ L[k + 3].id = "GPGLL"
        /\ L[k + 4].id = "GPRMC"
        /\ L[k + 5].id = "GPHDT"
        /\ L[k + 6].id = "GPVTG"
        /\ L[k + 7].id = "GPZDA"

C13_Witness ==
    /\ op = "tick" /\ ticks >= 3
    /\ Len(nmea_object.nmea_sentences) = 11
    /\ nmea_object.nmea_sentences[6].id = "GPGSV"

(***************************************************************************)
(* Properties of the checksum and of the sentence frame.                   *)
(***************************************************************************)
\* The XOR of the characters of a string, bit by bit: a bit of the result
\* is set exactly when an odd number of characters have it set.
XorOfBytes(str) ==
    LET bit(n, i) == (n \div (2 ^ i)) % 2
        odd(i) == Cardinality({j \in 1..Len(str) : bit(str[j], i) = 1}) % 2
    IN  odd(0) + 2 * odd(1) + 4 * odd(2) + 8 * odd(3)
        + 16 * odd(4) + 32 * odd(5) + 64 * odd(6) + 128 * odd(7)

\* A number below 256 as two upper-case hexadecimal digits.
TwoHexDigits(n) ==
    LET digit(d) == IF d < 10 THEN 48 + d ELSE 55 + d
    IN  <<digit(n \div 16), digit(n % 16)>>

\* C16: check_sum(body) is the XOR of the byte values of all characters of
\* body, written as exactly two upper-case hexadecimal digits, also for the
\* empty string; for the body of the RMC test sentence it is '08'.
C16_CheckSum ==
    (call.fn = "check_sum" /\ call.done) =>
        /\ call.out = TwoHexDigits(XorOfBytes(call.data))
        /\ Len(call.out) = 2
        /\ (call.data = test_data => call.out = <<48, 56>>)
        /\ (call.data = <<>> => call.out = <<48, 48>>)

C16_Witness ==
    /\ call.fn = "check_sum"
    /\ call.done
    /\ call.data = test_data
    /\ call.out = <<48, 56>>

\* C17: for every sentence kind and every renderer state the rendered
\* string is '$' + body + '*' + check_sum(body) + CR LF, where the body
\* starts with the kind's 5-character identifier and the checksum is the one
\* of exactly the body between '$' and '*'.
C17_SentenceFrame ==
    call.fn = "str" =>
        LET out == call.out
            n == Len(out)
            body == SubSeq(out, 2, n - 5)
        IN  /\ n >= 11
            /\ out[1] = 36
            /\ SubSeq(body, 1, 5) = sentence_id(call.kind)
            /\ body = sentence_id(call.kind) \o <<44>> \o call.payload
            /\ out[n - 4] = 42
            /\ SubSeq(out, n - 3, n - 2) = TwoHexDigits(XorOfBytes(body))
            /\ out[n - 1] = 13
            /\ out[n] = 10

\* '$GPHDT,90.0,T*0C' CR LF, the sentence of test_gphdt_str.
C17_Witness ==
    /\ call.fn = "str"
    /\ call.kind = "HDT"
    /\ call.payload = test_payload
    /\ call.out = <<36, 71, 80, 72, 68, 84, 44, 57, 48, 46, 48, 44, 84, 42,
                    48, 67, 13, 10>>

\* The renderers' mutable fields agree with the engine's attributes.
RenderersCurrent(e) ==
    /\ e.gprmc.sog = e.speed
    /\ e.gprmc.cmg = e.heading
    /\ e.gphdt.heading = e.heading
    /\ e.gpvtg.heading_true = e.heading
    /\ e.gpvtg.sog_knots = e.speed
    /\ e.gpgga.altitude = e.altitude
    /\ e.gpgga.antenna_altitude_above_msl = e.altitude + 25000
    /\ e.gprmc.magnetic_var_value = e.magvar
    /\ e.gprmc.magnetic_var_direct = e.magvar_direct
    /\ e.position.lat_nmea = ddd2nmea(e.position.lat)
    /\ e.position.lng_nmea = ddd2nmea(e.position.lng)
    /\ e.position.lat_dir = ll2dir(e.position.lat, "lat")
    /\ e.position.lng_dir = ll2dir(e.position.lng, "lng")
    /\ e.gpgga.utc_time = strftime_HMS(e.utc_date_time)
    /\ e.gpgll.utc_time = strftime_HMS(e.utc_date_time)
    /\ e.gprmc.utc_time = strftime_HMS(e.utc_date_time)
    /\ e.gpzda.utc_time = strftime_HMS(e.utc_date_time)

\* C18: at the end of every advance every renderer reflects the engine's
\* current state: RMC speed and course, HDT heading, VTG true heading and
\* speed, GGA altitude and antenna height (altitude + 2.5), RMC variation
\* magnitude and direction, the position GGA, GLL and RMC read, and the time
\* of GGA, GLL, RMC and ZDA, which is the one of this tick's timestamp.
C18_RenderersCurrent ==
    op = "tick" => RenderersCurrent(nmea_object)

\* The same at the return of next() in a TCP server worker.
C18_RenderersCurrentServer ==
    [][(\E w \in Workers : Advance3(w)) => RenderersCurrent(nmea_object')]_vars

\* A tick after which the heading has turned and the second has changed.
C18_Witness ==
    /\ op = "tick"
    /\ nmea_object.heading # start.heading
    /\ nmea_object.gprmc.cmg = nmea_object.heading
    /\ nmea_object.gpzda.utc_time > 0
    /\ nmea_object.gpzda.utc_time = strftime_HMS(nmea_object.utc_date_time)

(***************************************************************************)
(* Properties of the coordinate formatter and parser.                      *)
(***************************************************************************)
\* The minutes field of a formatted coordinate: its last eight characters.
MinutesField(dmm) == SubSeq(dmm, Len(dmm) - 7, Len(dmm))

\* C19: no formatted coordinate has a minutes field of 60.00000: an input
\* whose minutes round to 60.00000 at five decimals is formatted as the
\* next whole degree with minutes 00.00000.
C19_NoSixtyMinutes ==
    call.fn = "ddd2nmeall" =>
        /\ MinutesField(call.out) # <<54, 48, 46, 48, 48, 48, 48, 48>>
        /\ \A half_up \in BOOLEAN :
              minutes_5f(call.degrees, half_up) = 6000000 =>
                  call.out = zfill(format_5f((call.degrees.deg + 1) * 10000000),
                                   IF call.att = "lat" THEN 10 ELSE 11)

\* |out - degrees| <= 1e-5 degrees, for the parser's result and a decimal
\* degree value.
Within1e5(out, degrees) ==
    IF degrees.neg
    THEN /\ out.deg + degrees.deg = 0
         /\ \/ out.frac + degrees.frac < 10000
            \/ out.frac + degrees.frac = 10000 /\ out.tenth = 0
    ELSE /\ out.deg - degrees.deg \in {-1, 0, 1}
         /\ LET nano == (out.deg - degrees.deg) * Giga + out.frac - degrees.frac
            IN  \/ nano >= -10000 /\ nano < 10000
                \/ nano = 10000 /\ out.tenth = 0

\* C20: for every decimal-degree input of the valid latitude or longitude
\* range, ddd2nmeall followed by nmeall2ddd gives the original value back
\* within 1e-5 degrees.
C20_RoundTrip ==
    (call.fn = "nmeall2ddd" /\ call.back) =>
        /\ ~call.out.none
        /\ Within1e5(call.out, call.degrees)

\* C20, amended: the round trip gives the absolute value of the original
\* back within 1e-5 degrees; the sign is not part of the formatted string.
C20_RoundTripMagnitude ==
    (call.fn = "nmeall2ddd" /\ call.back) =>
        /\ ~call.out.none
        /\ Within1e5(call.out, abs_degrees(call.degrees))

\* -53.5 as a latitude comes back as 53.5.
C20_Witness ==
    /\ call.fn = "nmeall2ddd"
    /\ call.back
    /\ call.degrees = [neg |-> TRUE, deg |-> 53, frac |-> 500000000]
    /\ call.att = "lat"
    /\ call.pos = <<53, 51, 51, 48, 46, 48, 48, 48, 48, 48>>
    /\ call.out = [none |-> FALSE, deg |-> 53, frac |-> 500000000, tenth |-> 0]

(***************************************************************************)
(* Properties of the VTG and GGA sentences.                                *)
(***************************************************************************)
\* C21: in every VTG sentence the engine can render, the one rendered after
\* construction and before the first advance included, the magnetic heading
\* is the true heading minus the engine's magnetic variation (to the one
\* decimal the field is rounded to) and the km/h field is the knots field
\* times 1.852 to one decimal.
C21_VtgFields ==
    LET vtg == Gpvtg_fields(nmea_object)
    IN  /\ vtg.heading_magnetic = Round1(vtg.heading_true - nmea_object.magvar)
        /\ Abs(vtg.sog_kmhr * 10000 - vtg.sog_knots * 1852) <= 5000

\* The fields of a sentence body: the text between the commas.
RECURSIVE Split(_)
Split(str) ==
    IF \E i \in 1..Len(str) : str[i] = 44
    THEN LET last == CHOOSE i \in 1..Len(str) :
                        str[i] = 44 /\ \A j \in (i + 1)..Len(str) : str[j] # 44
         IN  Append(Split(SubSeq(str, 1, last - 1)), SubSeq(str, last + 1, Len(str)))
    ELSE <<str>>

\* C22: the GGA sentence renders the satellite count as exactly two digits,
\* zero-padded, for every count from 0 to 99, renders fix quality 1 and the
\* unit markers 'M' after altitude and antenna height, and ends with two
\* empty differential-GPS fields; the count is the number of active
\* satellites passed at construction.
C22_GgaFields ==
    (call.fn = "Gpgga" /\ call.sats_count <= 99) =>
        LET fields == Split(call.out)
        IN  /\ Len(fields) = 15
            /\ fields[7] = <<49>>
            /\ Len(fields[8]) = 2
            /\ IsDigits(fields[8])
            /\ int_str(fields[8]) = call.sats_count
            /\ fields[11] = <<77>>
            /\ fields[13] = <<77>>
            /\ fields[14] = <<>>
            /\ fields[15] = <<>>

\* 'GPGGA,083840.00,5002.31537,N,00833.57615,E,1,07,0.92,15.2,M,32.5,M,,'
C22_Witness ==
    /\ call.fn = "Gpgga"
    /\ call.by = "test"
    /\ call.sats_count = 7
    /\ call.out = <<71, 80, 71, 71, 65, 44, 48, 56, 51, 56, 52, 48, 46, 48, 48, 44, 53, 48, 48, 50, 46, 51, 49, 53, 51, 55, 44, 78, 44, 48, 48, 56, 51, 51, 46, 53, 55, 54, 49, 53, 44, 69, 44, 49, 44, 48, 55, 44, 48, 46, 57, 50, 44, 49, 53, 46, 50, 44, 77, 44, 51, 50, 46, 53, 44, 77, 44, 44>>

(***************************************************************************)
(* Properties of the reconciliation of heading, speed and altitude.        *)
(***************************************************************************)
\* The shorter angular distance between two headings, in hundredths.
ShorterArc(a, b) ==
    LET cw == (b - a) % 36000
    IN  IF cw <= 18000 THEN cw ELSE 36000 - cw

\* C23: heading reconciliation never overshoots: whenever the shorter
\* angular distance between the current heading and the target is at most
\* 3 degrees, one tick sets the heading exactly to the target, also when
\* the shorter arc crosses 0/360 (current 359, target 1).
C23_NoOvershoot ==
    (call.fn = "_heading_update"
        /\ ShorterArc(call.heading, call.heading_targeted) <= heading_increment)
            => call.out = call.heading_targeted

\* The number of increments of size step between two values: the ceiling
\* of the distance divided by step.
TicksLeft(current, target, step) ==
    (Abs(target - current) + step - 1) \div step

C25_AltitudeStep ==
    [][(Ticked /\ nmea_object.altitude # nmea_object.altitude_targeted) =>
        LET altitude_current == nmea_object.altitude
            altitude_target == nmea_object.altitude_targeted
            altitude_next == nmea_object'.altitude
        IN  /\ nmea_object'.altitude_targeted = altitude_target
            /\ Abs(altitude_target - altitude_current) <= altitude_increment
                    => altitude_next = altitude_target
            /\ altitude_target - altitude_current > altitude_increment
                    => altitude_next = altitude_current + altitude_increment
            /\ altitude_current - altitude_target > altitude_increment
                    => altitude_next = altitude_current - altitude_increment
            /\ TicksLeft(altitude_next, altitude_target, altitude_increment)
                    = TicksLeft(altitude_current, altitude_target,
                                altitude_increment) - 1
      ]_vars

\* The values the reconciliation moves.
Reconciled(e) == <<e.heading, e.speed, e.altitude>>

\* C26: with the heading target in [0, 360), ticks that keep occurring after
\* the last setter bring heading, speed and altitude to their targets and
\* clear change_in_progress.  A reconciliation is a function of the values
\* and their targets alone, so this requires every tick that starts away
\* from the targets to change one of the values: a tick that leaves all
\* three where they were is repeated by every later tick.
C26_TickProgress ==
    [][(/\ Ticked
        /\ nmea_object.heading_targeted >= 0
        /\ nmea_object.heading_targeted < 36000
        /\ ~AllAtTarget(nmea_object))
            => Reconciled(nmea_object') # Reconciled(nmea_object)
      ]_vars

\* C27: a heading target outside [0, 360), as the +1 button gives from 359
\* and the -1 button from 0, is reconciled modulo 360: once the heading
\* equals the target modulo 360 it stops changing, and the tick that finds
\* it there leaves change_in_progress false.
C27_TargetNormalized ==
    [][(/\ Ticked
        /\ \/ nmea_object.heading_targeted < 0
           \/ nmea_object.heading_targeted >= 36000
        /\ nmea_object.heading = nmea_object.heading_targeted % 36000)
            => /\ nmea_object'.heading = nmea_object.heading
               /\ ~nmea_object'.change_in_progress
      ]_vars

(***************************************************************************)
(* Properties of the order of the phases of a tick.                        *)
(***************************************************************************)
\* A step of Spec that is a tick, whatever the tick changes: op is written
\* "tick" by Tick alone.
TickStep == op' = "tick"

\* C28: within one tick the timestamp is updated first, on every tick and
\* also when the speed is 0; then the position is advanced with the heading
\* and the speed held before the reconciliation of this tick and the time
\* elapsed since the previous tick only; then heading, speed and altitude
\* are reconciled.  A target set before a tick changes the position only
\* from the following tick, and the position is advanced only when the
\* current speed is above 0.
C28_PhaseOrder ==
    [][TickStep =>
        LET e == nmea_object
            elapsed == nmea_object'.utc_date_time - e.utc_date_time
            end == geod_fwd(e.position.lng, e.position.lat, e.heading,
                            e.speed * elapsed)
        IN  /\ elapsed > 0
            /\ e.speed > 0 => /\ nmea_object'.position.lat = end.lat
                              /\ nmea_object'.position.lng = end.lng
            /\ ~(e.speed > 0) => /\ nmea_object'.position.lat = e.position.lat
                                 /\ nmea_object'.position.lng = e.position.lng
            /\ nmea_object'.heading = reconcile_heading(e).heading
            /\ nmea_object'.speed = reconcile_speed(e).speed
            /\ nmea_object'.altitude = reconcile_altitude(e).altitude
      ]_vars

\* The first tick after a course of 180 was typed on the unit that moves
\* east from the origin: the heading has turned to 93 and the position has
\* moved due east, along the heading held before the tick.
C28_Witness ==
    /\ op = "tick"
    /\ ticks = 1
    /\ start = [heading |-> 9000, target |-> 18000]
    /\ nmea_object.heading = 9000 + heading_increment
    /\ nmea_object.position.lat = 0
    /\ nmea_object.position.lng > 0

(***************************************************************************)
(* Properties of the change requests handed to the sink threads.           *)
(***************************************************************************)
\* The positions of run() between the update of the targets and the end of
\* the with block.
InCycle == {"elect", "advance", "messages", "messages2", "render", "render2", "send"}

\* Thread w has a change request that its run() has not taken yet.
Pending(p) == p.heading_change \/ p.speed_change \/ p.altitude_change

\* C29: in every cycle of every sink thread the pending heading, speed and
\* altitude requests are written to the engine's targets before the cycle
\* advances or renders the engine: the step that opens the cycle writes
\* them and clears the flags, and no request is pending on a thread that is
\* past that step.  So a request that was handed to every thread before the
\* cycle opened is in effect for the tick of the cycle: the cycle goes on
\* with the requested heading as the heading target.
C29_AppliedFirst ==
    [][\A w \in Workers :
        /\ (pc[w] = "idle" /\ pc'[w] # "idle") =>
              /\ pc'[w] = "elect"
              /\ pending[w].heading_change =>
                    nmea_object'.heading_targeted = pending[w].heading
              /\ pending[w].speed_change =>
                    nmea_object'.speed_targeted = pending[w].speed
              /\ pending[w].altitude_change =>
                    nmea_object'.altitude_targeted = pending[w].altitude
        /\ pc'[w] \in InCycle => ~Pending(pending'[w])
        /\ (pc[w] = "idle" /\ pc'[w] = "elect" /\ ctl.pc = "prompt") =>
              nmea_object'.heading_targeted = start.target
      ]_vars

\* The step of run() of thread w that takes its pending requests.
Takes(w) == pc[w] = "idle" /\ pc'[w] = "elect"

\* Every pending heading request that a thread takes is cleared and is the
\* heading target after the step.
RequestWritten ==
    \A w \in Workers :
        (Takes(w) /\ pending[w].heading_change) =>
            /\ nmea_object'.heading_targeted = pending[w].heading
            /\ ~pending'[w].heading_change

\* With no request on its way to the threads and none pending on a live
\* thread, the heading target is the heading requested last.
RequestFinal ==
    (/\ ctl'.pc = "prompt"
     /\ \A w \in Workers : Alive(w) => ~pending'[w].heading_change)
        => nmea_object'.heading_targeted = start'.target

\* No thread replaces the heading requested last by an earlier one.
RequestNotStale ==
    (start' = start /\ nmea_object.heading_targeted = start.target)
        => nmea_object'.heading_targeted = start.target

\* C30: a change request is never lost or applied stale: after the setter
\* has returned on a live thread, the next cycle of that thread writes the
\* value to the engine target and clears the pending flag; and with several
\* threads receiving a sequence of requests the engine target finally is
\* the value requested last, never an earlier one.
C30_RequestKept ==
    [][RequestWritten /\ RequestFinal /\ RequestNotStale]_vars

(***************************************************************************)
(* Properties of the threads: locks, liveness of the engine, client limit. *)
(***************************************************************************)
\* C31: in every kind of sink thread the lock of the thread is released
\* before the pacing sleep of each cycle, so that a setter called on the
\* running thread gets the lock while the thread sleeps.
C31_SleepsUnlocked ==
    \A w \in Workers : pc[w] = "sleep" => ~lock[w]

\* C32: in TCP server mode the engine keeps being advanced as long as a
\* client thread is alive: when the thread that was advancing terminates,
\* or is blocked sending to its client, a remaining live thread calls
\* next() in the end.  Again and again a thread has just called next(),
\* unless no thread is left that is not held in sendall().
C32_KeepsAdvancing ==
    []<>(\/ \A w \in Workers : Alive(w) => pc[w] = "blocked"
         \/ \E w \in Workers : pc[w] = "messages")

\* A turn of the accept loop.
Accepted == call' # call

\* C33: the TCP server never has more than 10 'nmea_srv' client threads
\* alive at once: a new connection gets a thread only when fewer than 10
\* are alive; otherwise it is closed, no thread is started and the threads
\* that exist are as before.
C33_ClientLimit ==
    [][/\ Len(threads') <= 10
       /\ Accepted =>
             IF Len(threads) < 10
             THEN /\ ~call'.closed
                  /\ threads' = Append(threads, call'.conn)
             ELSE /\ call'.closed
                  /\ threads' = threads
      ]_vars

\* The eleventh connection while ten threads are alive has been closed.
C33_Witness ==
    /\ call.fn = "accept"
    /\ call.closed
    /\ Len(threads) = max_threads

(***************************************************************************)
(* Properties of the engine in full.                                       *)
(***************************************************************************)
\* C34: a tick leaves the satellite snapshot and the zone offset unchanged:
\* the satellites-in-view sentences (IDs, elevation, azimuth, SNR, counts),
\* the active satellites and the offset hours and minutes of the time/date
\* sentence are after any number of ticks what they were after construction.
C34_SnapshotKept ==
    [][TickStep =>
        /\ nmea_object'.gpgsv_group = nmea_object.gpgsv_group
        /\ nmea_object'.gpgsa = nmea_object.gpgsa
        /\ nmea_object'.gpgga.sats_count = nmea_object.gpgga.sats_count
        /\ nmea_object'.gpzda.offset_hrs = nmea_object.gpzda.offset_hrs
        /\ nmea_object'.gpzda.offset_min = nmea_object.gpzda.offset_min
      ]_vars

\* Three ticks of an engine built in the zone UTC+12:45 with the four GSV
\* sentences of 15 satellites and twelve active ones.
C34_Witness ==
    /\ op = "tick"
    /\ ticks >= 3
    /\ nmea_object.gpzda.offset_hrs = [none |-> FALSE, int |-> 12]
    /\ nmea_object.gpzda.offset_min = [none |-> FALSE, int |-> 45]
    /\ Len(nmea_object.gpgsv_group.gpgsv_instances) = 4
    /\ Len(nmea_object.gpgsv_group.gpgsv_instances[4].sats_details) = 3
    /\ nmea_object.gpgsa.sats_count = 12

\* C35: in every batch the satellite count of GGA is the number of non-empty
\* satellite-ID fields of GSA, every active ID of GSA is one of the IDs of
\* the GSV group, and no ID is listed twice.
C35_ActiveSats ==
    LET ids == nmea_object.gpgsa.sats_ids_output
        active == {i \in 1..Len(ids) : ids[i] # 0}
        in_view == nmea_object.gpgsv_group.sats_ids
    IN  /\ Len(ids) = gsa_slots
        /\ nmea_object.gpgga.sats_count = Cardinality(active)
        /\ \A i \in active : \E j \in 1..Len(in_view) : in_view[j] = ids[i]
        /\ \A i, j \in active : i # j => ids[i] # ids[j]

\* A batch after a tick with four active satellites and eight empty fields.
C35_Witness ==
    /\ op = "tick"
    /\ nmea_object.gpgsa.sats_count = 4
    /\ nmea_object.gpgsa.sats_ids_output[5] = 0
    /\ nmea_object.gpgsv_group.sats_total = sats_total_default

\* C36: the backup of the start position (NmeaMsg.position_backup, and
\* Application.backup_nav_data_dict) still holds the latitude and longitude
\* of the start after the engine has advanced: no tick changes it, a tick
\* of a moving unit included.
C36_BackupKept ==
    [][TickStep =>
        /\ position_backup(nmea_object').lat = position_backup(nmea_object).lat
        /\ position_backup(nmea_object').lng = position_backup(nmea_object).lng
      ]_vars

\* C37: rendering never fails, whatever the start coordinate: the time/date
\* sentence is rendered, its hour offset is a sign and two digits and its
\* minute offset two digits, also when no zone was found for the start.
C37_ZdaRendered ==
    call.fn = "Gpzda" =>
        /\ call.out.raised = "none"
        /\ Len(call.out.offset_hrs) = 3
        /\ call.out.offset_hrs[1] \in {43, 45}
        /\ \A i \in 2..3 : call.out.offset_hrs[i] \in 48..57
        /\ Len(call.out.offset_min) = 2
        /\ \A i \in 1..2 : call.out.offset_min[i] \in 48..57

(***************************************************************************)
(* Properties of the change prompt.                                        *)
(***************************************************************************)
\* C38: after the operator has answered the change prompt, the target of a
\* field in which a value v was typed is v, whatever the current value and
\* the target pending before, and the target of a field skipped with Enter
\* is what it was before the prompt.
C38_PromptTargets ==
    [][(op' = "set" /\ presses' = presses + 1 /\ call'.fn = "change") =>
        LET c == call'.typed
        IN  /\ nmea_object'.heading_targeted =
                  IF c.heading_typed THEN c.heading
                  ELSE nmea_object.heading_targeted
            /\ nmea_object'.speed_targeted =
                  IF c.speed_typed THEN c.speed
                  ELSE nmea_object.speed_targeted
            /\ nmea_object'.altitude_targeted =
                  IF c.altitude_typed THEN c.altitude
                  ELSE nmea_object.altitude_targeted
      ]_vars

\* C39: with an initial speed of 0 or more and every speed target ever set
\* 0 or more (the start cases and the speeds typed at the prompt are), the
\* current speed is 0 or more in every reachable state.
C39_SpeedNotNegative ==
    /\ \A c \in InitCases : c.speed >= 0
    /\ \A c \in PromptCases : c.speed >= 0
    /\ nmea_object.speed_targeted >= 0
    /\ nmea_object.speed >= 0

\* A unit slowed down from 12 knots towards the typed speed 0: at 2 knots
\* after two steps down, and at 0 after the third.
C39_Witness ==
    /\ op = "tick"
    /\ presses = MaxRequests
    /\ call.fn = "change" /\ call.typed.speed_typed /\ call.typed.speed = 0
    /\ nmea_object.speed_targeted = 0
    /\ \/ nmea_object.speed = 200 /\ ticks = 2
       \/ nmea_object.speed = 0 /\ ticks = 3

(***************************************************************************)
(* Properties of the magnetic variation.                                   *)
(***************************************************************************)
\* C40: after a lookup the variation magnitude is the absolute value of the
\* signed declination, with direction 'E' for a positive and 'W' for a
\* negative declination, and the magnetic heading set by a tick accounts
\* for the direction: true heading - m with easterly variation of magnitude
\* m, true heading + m with westerly variation.
C40_MagneticHeading ==
    LET m == nmea_object.magvar
    IN  /\ nmea_object.magvar_dec # 0 =>
              /\ m = Abs(nmea_object.magvar_dec)
              /\ nmea_object.magvar_direct =
                    IF nmea_object.magvar_dec > 0 THEN "E" ELSE "W"
        /\ op = "tick" =>
              nmea_object.gpvtg.heading_magnetic =
                 Round1(IF nmea_object.magvar_direct = "E"
                        THEN nmea_object.heading - m
                        ELSE nmea_object.heading + m)

====
